---- MODULE Spec2Model ----
(***************************************************************************)
(* State-machine model of the FAT16/FAT32 driver core/cfs/fat/fat.c.       *)
(*                                                                         *)
(* The block device is modelled byte for byte: a sector is a tuple of 512  *)
(* bytes, the device a sparse map from sector number to sector (sectors    *)
(* never written read as zeros).  The driver's globals (sector buffer,     *)
(* mounted volume, handle pools, readdir cursor) are the variables; every  *)
(* public function of fat.c is one action that applies the whole call.     *)
(* C functions are operators over a record of the globals ("machine        *)
(* record"); a function with a result returns [st |-> ..., ret |-> ...].   *)
(***************************************************************************)
EXTENDS Integers, Sequences, FiniteSets, TLC

VARIABLES
    disk,                 \* the block device: [nsec, data]
    sector_buffer,        \* fat.c:65
    sector_buffer_addr,   \* fat.c:66
    sector_buffer_dirty,  \* fat.c:67
    cfs_readdir_offset,   \* fat.c:69
    mounted,              \* fat.c:71-75
    fat_file_pool,        \* fat.c:86
    fat_fd_pool,          \* fat.c:87
    op,                   \* history: the last public call and its arguments
    ret,                  \* history: what the last public call returned
    old,                  \* history: facts about the state before the last call
    hist,                 \* history: facts about all calls made so far
    nops                  \* history: number of public calls made so far

vars == <<disk, sector_buffer, sector_buffer_addr, sector_buffer_dirty,
          cfs_readdir_offset, mounted, fat_file_pool, fat_fd_pool,
          op, ret, old, hist, nops>>

----------------------------------------------------------------------------
(* Bounds of the model *)

MaxOps == 5

----------------------------------------------------------------------------
(* Program constants *)

SECTOR_SIZE == 512
DIR_ENTRY_SIZE == 32
FAT_FD_POOL_SIZE == 2

ATTR_READ_ONLY == 1
ATTR_VOLUME_ID == 8
ATTR_DIRECTORY == 16

FAT12 == "FAT12"
FAT16 == "FAT16"
FAT32 == "FAT32"

EOC == 268435455

CFS_READ == 1
CFS_WRITE == 2
CFS_APPEND == 4
CFS_SEEK_SET == 0
CFS_SEEK_CUR == 1
CFS_SEEK_END == 2

DISKIO_SUCCESS == 0
DISKIO_FAILURE == 1

\* flags & bit, for bit a power of two
HasBit(flags, bit) == (flags \div bit) % 2 = 1

\* statement sequencing: the result v of a call, handed to the statements that
\* follow it
Then(v, Rest(_)) == Rest(v)

----------------------------------------------------------------------------
(* Bytes, sectors and 32-bit words *)

\* the sequence of n copies of the sequence p
RECURSIVE Rep(_, _)
Rep(p, n) ==
    IF n = 0 THEN <<>>
    ELSE IF n = 1 THEN p
    ELSE LET h == Rep(p, n \div 2)
         IN  IF n % 2 = 1 THEN h \o h \o p ELSE h \o h

ZeroSector == Rep(<<0>>, SECTOR_SIZE)

Byte(n, k) == (n \div (256 ^ k)) % 256

\* the bytes b written into buf from byte offset o on
Put(buf, o, b) ==
    LET n == IF o + Len(b) <= Len(buf) THEN Len(b) ELSE Len(buf) - o
    IN  SubSeq(buf, 1, o) \o SubSeq(b, 1, n) \o SubSeq(buf, o + n + 1, Len(buf))

\* the n bytes of buf from byte offset o on
Slice(buf, o, n) == SubSeq(buf, o + 1, o + n)

LE16(buf, o) == buf[o + 1] + 256 * buf[o + 2]

LE32(buf, o) ==
    buf[o + 1] + 256 * buf[o + 2] + 65536 * buf[o + 3] + 16777216 * buf[o + 4]

\* uint32_t values that may exceed the model checker's integers are kept as
\* two 16-bit limbs <<hi, lo>>
U32(n) == <<n \div 65536, n % 65536>>

U32Sub(a, b) ==
    LET lo == a[2] - b[2]
        borrow == IF lo < 0 THEN 1 ELSE 0
    IN  <<(a[1] - b[1] - borrow + 131072) % 65536, (lo + 65536) % 65536>>

U32Add(a, b) ==
    LET lo == a[2] + b[2]
    IN  <<(a[1] + b[1] + (lo \div 65536)) % 65536, lo % 65536>>

\* k < 2^15
U32Mul(a, k) ==
    LET lo == a[2] * k
    IN  <<(a[1] * k + (lo \div 65536)) % 65536, lo % 65536>>

\* 0 < k < 2^15
U32Div(a, k) == <<a[1] \div k, (((a[1] % k) * 65536) + a[2]) \div k>>

U32Mod(a, k) == (((a[1] % k) * 65536) + a[2]) % k

\* defined for values below 2^31
U32Nat(a) == a[1] * 65536 + a[2]

----------------------------------------------------------------------------
(* The block device (external: diskio_read_block / diskio_write_block) *)

diskio_read_block(d, sector, buf) ==
    IF sector < d.nsec
    THEN [ret |-> DISKIO_SUCCESS,
          buf |-> IF sector \in DOMAIN d.data THEN d.data[sector] ELSE ZeroSector]
    ELSE [ret |-> DISKIO_FAILURE, buf |-> buf]

diskio_write_block(d, sector, buf) ==
    IF sector < d.nsec
    THEN [ret |-> DISKIO_SUCCESS,
          disk |-> [d EXCEPT !.data =
                      IF buf = ZeroSector
                      THEN [s \in DOMAIN d.data \ {sector} |-> d.data[s]]
                      ELSE (sector :> buf) @@ d.data]]
    ELSE [ret |-> DISKIO_FAILURE, disk |-> d]

\* what the device holds in a sector
OnDisk(d, sector) == IF sector \in DOMAIN d.data THEN d.data[sector] ELSE ZeroSector

----------------------------------------------------------------------------
(* Sector buffer: fat_flush, fat_read_block *)

\* a flush that writes the buffer but leaves the dirty flag set
fat_flush_keep_dirty(st) ==
    IF st.dirty # 0
    THEN [st EXCEPT !.disk = diskio_write_block(st.disk, st.addr, st.buf).disk,
                    !.io = Append(@, <<"write", st.addr>>)]
    ELSE st

\* the result of diskio_write_block is only printed; io is the list of device
\* transfers of the running call
fat_flush(st) ==
    IF st.dirty # 0
    THEN [st EXCEPT !.disk = diskio_write_block(st.disk, st.addr, st.buf).disk,
                    !.dirty = 0,
                    !.io = Append(@, <<"write", st.addr>>)]
    ELSE st

fat_read_block(st, sector_addr) ==
    IF st.addr = sector_addr /\ sector_addr # 0
    THEN [st |-> st, ret |-> 0]
    ELSE Then(fat_flush(st), LAMBDA f :
         Then(diskio_read_block(f.disk, sector_addr, f.buf), LAMBDA r :
              [st |-> [f EXCEPT !.addr = sector_addr, !.buf = r.buf,
                                !.io = Append(@, <<"read", sector_addr>>)],
               ret |-> r.ret]))

----------------------------------------------------------------------------
(* Cluster and sector arithmetic (uint32_t, wrapping) *)

\* fat.c:77; defined while the result is below 2^31
CLUSTER_TO_SECTOR(mnt, cluster_num) ==
    U32Nat(U32Add(U32Mul(U32Sub(U32(cluster_num), U32(2)), mnt.BPB_SecPerClus),
                  U32(mnt.first_data_sector)))

\* fat.c:78; the result is a limb pair: it exceeds 2^31 for a sector in front
\* of the data region
SECTOR_TO_CLUSTER(mnt, sector_num) ==
    U32Add(U32Div(U32Sub(U32(sector_num), U32(mnt.first_data_sector)),
                  mnt.BPB_SecPerClus),
           U32(2))

is_EOC(mnt, fat_entry) ==
    IF mnt.type = FAT16
    THEN (IF fat_entry >= 65528 THEN 1 ELSE 0)
    ELSE IF mnt.type = FAT32
    THEN (IF fat_entry % 268435456 >= 268435448 THEN 1 ELSE 0)
    ELSE 0

\* cur_cluster is a limb pair
calc_fat_block(mnt, cur_cluster) ==
    Then(IF mnt.type = FAT16 THEN U32Mul(cur_cluster, 2)
         ELSE IF mnt.type = FAT32 THEN U32Mul(cur_cluster, 4)
         ELSE U32(0), LAMBDA ent :
        [fat_sec_num |-> mnt.BPB_RsvdSecCnt + U32Nat(U32Div(ent, mnt.BPB_BytesPerSec)),
         ent_offset  |-> U32Mod(ent, mnt.BPB_BytesPerSec)])

----------------------------------------------------------------------------
(* FAT entries *)

\* cluster_num is a limb pair; the result of fat_read_block is not looked at
read_fat_entry(st, cluster_num) ==
    Then(calc_fat_block(st.mnt, cluster_num), LAMBDA c :
    Then(fat_read_block(st, c.fat_sec_num).st, LAMBDA s :
         LET o == c.ent_offset
         IN  [st  |-> s,
              ret |-> IF s.mnt.type = FAT16 THEN s.buf[o + 2] * 256 + s.buf[o + 1]
                      ELSE IF s.mnt.type = FAT32
                      THEN (s.buf[o + 4] % 16) * 16777216 + s.buf[o + 3] * 65536
                           + s.buf[o + 2] * 256 + s.buf[o + 1]
                      ELSE EOC]))

\* cluster_num is a limb pair, value is below 2^31.  In the FAT32 branch
\* (0xF000 & sector_buffer[ent_offset+3]) is 0 for every byte, so byte 3 is
\* just bits 24..31 of value.
write_fat_entry(st, cluster_num, value) ==
    Then(calc_fat_block(st.mnt, cluster_num), LAMBDA c :
    Then(fat_read_block(st, c.fat_sec_num).st, LAMBDA s :
         [s EXCEPT !.buf = IF s.mnt.type = FAT16
                           THEN Put(@, c.ent_offset, <<Byte(value, 0), Byte(value, 1)>>)
                           ELSE IF s.mnt.type = FAT32
                           THEN Put(@, c.ent_offset, <<Byte(value, 0), Byte(value, 1),
                                                       Byte(value, 2), Byte(value, 3)>>)
                           ELSE @,
                   !.dirty = 1]))

\* the for loops of _get_free_cluster_16 and _get_free_cluster_32 over the
\* entries lo..hi of the buffer: the byte offset of the first zero entry, 512
\* when there is none (the range is halved to keep the evaluation shallow, and
\* a buffer without a zero entry is answered at once)
RECURSIVE FreeScan16(_, _, _)
FreeScan16(buf, lo, hi) ==
    IF lo = hi
    THEN (IF buf[2 * lo + 1] * 256 + buf[2 * lo + 2] = 0 THEN 2 * lo ELSE 512)
    ELSE Then(FreeScan16(buf, lo, (lo + hi) \div 2), LAMBDA i :
              IF i # 512 THEN i ELSE FreeScan16(buf, ((lo + hi) \div 2) + 1, hi))

_get_free_cluster_16(buf) ==
    IF \A k \in 0..255 : buf[2 * k + 1] # 0 \/ buf[2 * k + 2] # 0 THEN 512
    ELSE FreeScan16(buf, 0, 255)

RECURSIVE FreeScan32(_, _, _)
FreeScan32(buf, lo, hi) ==
    IF lo = hi
    THEN (IF (buf[4 * lo + 4] % 16) = 0 /\ buf[4 * lo + 3] = 0
             /\ buf[4 * lo + 2] = 0 /\ buf[4 * lo + 1] = 0
          THEN 4 * lo ELSE 512)
    ELSE Then(FreeScan32(buf, lo, (lo + hi) \div 2), LAMBDA i :
              IF i # 512 THEN i ELSE FreeScan32(buf, ((lo + hi) \div 2) + 1, hi))

_get_free_cluster_32(buf) ==
    IF \A k \in 0..127 : (buf[4 * k + 4] % 16) # 0 \/ buf[4 * k + 3] # 0
                          \/ buf[4 * k + 2] # 0 \/ buf[4 * k + 1] # 0 THEN 512
    ELSE FreeScan32(buf, 0, 127)

\* the first sector from x on in which device d has a zero entry, d.nsec when
\* it has none
RECURSIVE FreeSkip(_, _, _)
FreeSkip(type, d, x) ==
    IF x >= d.nsec THEN d.nsec
    ELSE IF (IF type = FAT16 THEN _get_free_cluster_16(OnDisk(d, x))
             ELSE IF type = FAT32 THEN _get_free_cluster_32(OnDisk(d, x))
             ELSE 0) # 512 THEN x
    ELSE FreeSkip(type, d, x + 1)

\* the do-while of get_free_cluster from FAT sector fat_sec_num on.  The code
\* has no end condition: a scan that leaves the device never returns (hung).
\* After the first sector every fat_read_block is a device read of the next
\* sector (the first of them flushes), so the sectors without a zero entry are
\* passed over in one step, which io records as <<"scan", first, last>>.
FreeLoop(st, fat_sec_num) ==
    Then(fat_read_block(st, fat_sec_num).st, LAMBDA s :
    Then(IF s.mnt.type = FAT16 THEN _get_free_cluster_16(s.buf)
         ELSE IF s.mnt.type = FAT32 THEN _get_free_cluster_32(s.buf)
         ELSE 0, LAMBDA i :
         IF i # 512 THEN [st |-> s, i |-> i, fat_sec_num |-> fat_sec_num + 1]
         ELSE Then(fat_flush(s), LAMBDA f :
              Then(FreeSkip(f.mnt.type, f.disk, fat_sec_num + 1), LAMBDA x :
              IF x >= f.disk.nsec
              THEN [st |-> [f EXCEPT !.hung = TRUE], i |-> 0, fat_sec_num |-> fat_sec_num + 1]
              ELSE [st |-> [f EXCEPT !.addr = x, !.buf = OnDisk(f.disk, x),
                                     !.io = Append(@, <<"scan", fat_sec_num + 1, x>>)],
                    i  |-> IF f.mnt.type = FAT16 THEN _get_free_cluster_16(OnDisk(f.disk, x))
                           ELSE IF f.mnt.type = FAT32
                           THEN _get_free_cluster_32(OnDisk(f.disk, x))
                           ELSE 0,
                    fat_sec_num |-> x + 1]))))

\* start_cluster is a limb pair
get_free_cluster(st, start_cluster) ==
    Then(FreeLoop(st, calc_fat_block(st.mnt, start_cluster).fat_sec_num), LAMBDA r :
    Then(U32Add(U32Mul(U32((r.fat_sec_num - 1) - r.st.mnt.BPB_RsvdSecCnt),
                       r.st.mnt.BPB_BytesPerSec),
                U32(r.i)), LAMBDA e :
         [st  |-> r.st,
          ret |-> U32Nat(IF r.st.mnt.type = FAT16 THEN U32Div(e, 2)
                         ELSE IF r.st.mnt.type = FAT32 THEN U32Div(e, 4)
                         ELSE e)]))

\* the for loop: n times cluster = read_fat_entry(cluster); the n steps are
\* made as two halves one after the other, and the test of h.ret (never
\* negative) has the first half evaluated before the second is entered, which
\* keeps the evaluation shallow
RECURSIVE find_nth_cluster(_, _, _)
find_nth_cluster(st, start_cluster, n) ==
    IF n = 0 THEN [st |-> st, ret |-> start_cluster]
    ELSE IF n = 1 THEN read_fat_entry(st, U32(start_cluster))
    ELSE Then(find_nth_cluster(st, start_cluster, n \div 2), LAMBDA h :
              IF h.ret < 0 THEN h
              ELSE find_nth_cluster(h.st, h.ret, n - (n \div 2)))

----------------------------------------------------------------------------
(* Directory entries: 32 bytes, fields at their on-disk offsets *)

DIR_Name(e) == Slice(e, 0, 11)
DIR_Attr(e) == e[12]
DIR_FstClusHI(e) == LE16(e, 20)
DIR_FstClusLO(e) == LE16(e, 26)
DIR_FileSize(e) == LE32(e, 28)
FstClus(e) == DIR_FstClusHI(e) * 65536 + DIR_FstClusLO(e)

SetFstClus(e, c) ==
    Put(Put(e, 20, <<Byte(c, 2), Byte(c, 3)>>), 26, <<Byte(c, 0), Byte(c, 1)>>)

SetFileSize(e, n) == Put(e, 28, <<Byte(n, 0), Byte(n, 1), Byte(n, 2), Byte(n, 3)>>)

ZeroEntry == Rep(<<0>>, DIR_ENTRY_SIZE)

----------------------------------------------------------------------------
(* Cluster chains *)

\* the loop of reset_cluster_chain
RECURSIVE ResetLoop(_, _, _)
ResetLoop(st, cluster, next_cluster) ==
    IF is_EOC(st.mnt, cluster) = 0 /\ cluster >= 2
    THEN Then(read_fat_entry(write_fat_entry(st, U32(cluster), 0), U32(next_cluster)),
              LAMBDA r : ResetLoop(r.st, next_cluster, r.ret))
    ELSE write_fat_entry(st, U32(cluster), 0)

\* variant of reset_cluster_chain that frees the first cluster only
reset_cluster_chain_first_only(st, dir_ent) ==
    write_fat_entry(st, U32(FstClus(dir_ent)), 0)

reset_cluster_chain(st, dir_ent) ==
    Then(read_fat_entry(st, U32(FstClus(dir_ent))), LAMBDA r :
         ResetLoop(r.st, FstClus(dir_ent), r.ret))

----------------------------------------------------------------------------
(* Sector buffer: fat_next_block *)

fat_next_block(st) ==
    Then(fat_flush(st), LAMBDA f :
         IF (f.addr + 1) % f.mnt.BPB_SecPerClus = 0
         THEN Then(read_fat_entry(f, SECTOR_TO_CLUSTER(f.mnt, f.addr)), LAMBDA e :
                   IF is_EOC(e.st.mnt, e.ret) = 1
                   THEN [st |-> e.st, ret |-> 128]
                   ELSE fat_read_block(e.st, CLUSTER_TO_SECTOR(e.st.mnt, e.ret)))
         ELSE fat_read_block(f, f.addr + 1))

----------------------------------------------------------------------------
(* Path resolver.  A path is the tuple of its characters (without the NUL); *)
(* oob is what a read of path[] behind the NUL yields (undefined in C).     *)

SLASH == 47
DOT == 46
SPACE == 32

PathAt(path, i, oob) ==
    IF i < Len(path) THEN path[i + 1] ELSE IF i = Len(path) THEN 0 ELSE oob

\* variant of toupper that leaves every character as it is
toupper_none(c) == c

toupper(c) == IF c >= 97 /\ c <= 122 THEN c - 32 ELSE c

\* the for loop of _make_valid_name
RECURSIVE ValidNameLoop(_, _, _, _, _, _, _, _)
ValidNameLoop(path, start, end, i, idx, dot_found, name, oob) ==
    IF ~(i < end - start) THEN [ret |-> 0, name |-> name]
    ELSE IF idx >= 11 THEN [ret |-> 2, name |-> name]
    ELSE IF PathAt(path, start + i, oob) = DOT
    THEN (IF dot_found = 1 THEN [ret |-> 3, name |-> name]
          ELSE ValidNameLoop(path, start, end, i + 1, 8, 1, name, oob))
    ELSE IF dot_found = 0 /\ idx > 7 THEN [ret |-> 4, name |-> name]
    ELSE ValidNameLoop(path, start, end, i + 1, idx + 1, dot_found,
                       [name EXCEPT ![idx + 1] = toupper(PathAt(path, start + i, oob))],
                       oob)

_make_valid_name(path, start, end, oob) ==
    ValidNameLoop(path, start, end, 0, 0, 0, Rep(<<SPACE>>, 11), oob)

pr_reset == [start |-> 0, end |-> 0, path |-> <<>>, name |-> Rep(<<0>>, 11)]

\* the for loop of pr_get_next_path_part
RECURSIVE PathPartLoop(_, _, _)
PathPartLoop(rsolv, i, oob) ==
    IF PathAt(rsolv.path, i, oob) = 0 THEN [pr |-> rsolv, ret |-> 1]
    ELSE Then([rsolv EXCEPT !.end = IF PathAt(rsolv.path, i, oob) # SLASH
                                    THEN @ + 1 ELSE @], LAMBDA r :
              IF PathAt(r.path, r.end, oob) = SLASH \/ PathAt(r.path, r.end, oob) = 0
              THEN Then(_make_valid_name(r.path, r.start, r.end, oob), LAMBDA v :
                        [pr |-> [r EXCEPT !.name = v.name], ret |-> v.ret])
              ELSE PathPartLoop(r, i + 1, oob))

pr_get_next_path_part(rsolv, oob) ==
    LET s0 == rsolv.end
        s  == IF PathAt(rsolv.path, s0, oob) = SLASH THEN s0 + 1 ELSE s0
    IN  PathPartLoop([rsolv EXCEPT !.start = s, !.end = rsolv.end + 1], s, oob)

pr_is_current_path_part_a_file(rsolv, oob) ==
    IF PathAt(rsolv.path, rsolv.end, oob) = SLASH THEN 0
    ELSE IF PathAt(rsolv.path, rsolv.end, oob) = 0 THEN 1
    ELSE 0

----------------------------------------------------------------------------
(* Directory engine *)

\* the slot loop of lookup over the buffered sector: <<kind, offset>> with
\* kind "hit" (name matches), "end" (first byte 0x00) or "none"
RECURSIVE LookupSlots(_, _, _)
LookupSlots(buf, name, i) ==
    IF i >= 512 THEN <<"none", 0>>
    ELSE IF Slice(buf, i, 11) = name THEN <<"hit", i>>
    ELSE IF buf[i + 1] = 0 THEN <<"end", i>>
    ELSE LookupSlots(buf, name, i + DIR_ENTRY_SIZE)

\* ret 0: found (dir_entry, sector, offset are set); 1: end of directory;
\* 2: fat_next_block failed
RECURSIVE lookup(_, _)
lookup(st, name) ==
    Then(LookupSlots(st.buf, name, 0), LAMBDA r :
         IF r[1] = "hit"
         THEN [st |-> st, ret |-> 0, dir_entry |-> Slice(st.buf, r[2], DIR_ENTRY_SIZE),
               sector |-> st.addr, offset |-> r[2]]
         ELSE IF r[1] = "end"
         THEN [st |-> st, ret |-> 1, dir_entry |-> ZeroEntry, sector |-> 0, offset |-> 0]
         ELSE Then(fat_next_block(st), LAMBDA n :
                   IF n.ret # 0
                   THEN [st |-> n.st, ret |-> 2, dir_entry |-> ZeroEntry,
                         sector |-> 0, offset |-> 0]
                   ELSE lookup(n.st, name)))

\* first slot of the buffered sector whose first byte is 0x00 or 0xE5, or 512
RECURSIVE FreeSlot(_, _)
FreeSlot(buf, i) ==
    IF i >= 512 THEN 512
    ELSE IF buf[i + 1] = 0 \/ buf[i + 1] = 229 THEN i
    ELSE FreeSlot(buf, i + DIR_ENTRY_SIZE)

\* ret 1: stored at (sector, offset); ret 0: failed
RECURSIVE add_directory_entry_to_current(_, _)
add_directory_entry_to_current(st, dir_ent) ==
    Then(FreeSlot(st.buf, 0), LAMBDA i :
         IF i # 512
         THEN [st |-> [st EXCEPT !.buf = Put(@, i, dir_ent), !.dirty = 1],
               ret |-> 1, sector |-> st.addr, offset |-> i]
         ELSE Then(fat_next_block(st), LAMBDA n :
              IF n.ret = 0 THEN add_directory_entry_to_current(n.st, dir_ent)
              ELSE IF n.ret = 128
              THEN Then(get_free_cluster(n.st, SECTOR_TO_CLUSTER(n.st.mnt, n.st.addr)),
                        LAMBDA g :
                   Then(write_fat_entry(g.st, SECTOR_TO_CLUSTER(g.st.mnt, g.st.addr),
                                        g.ret), LAMBDA w1 :
                   Then(write_fat_entry(w1, U32(g.ret), EOC), LAMBDA w2 :
                   Then(fat_read_block(w2, CLUSTER_TO_SECTOR(w2.mnt, g.ret)), LAMBDA b :
                        IF b.ret = 0
                        THEN [st |-> [b.st EXCEPT !.buf = Put(@, 0, dir_ent), !.dirty = 1],
                              ret |-> 1, sector |-> b.st.addr, offset |-> 0]
                        ELSE [st |-> b.st, ret |-> 0, sector |-> 0, offset |-> 0]))))
              ELSE [st |-> n.st, ret |-> 0, sector |-> 0, offset |-> 0]))

\* The token loop of get_dir_entry.  g carries the caller's dir_ent, sector and
\* offset (written through the pointers) and the running file_sector_num.
RECURSIVE DirEntryLoop(_, _, _, _, _, _, _)
DirEntryLoop(st, pr, g, first_root, i, create, oob) ==
    Then(pr_get_next_path_part(pr, oob), LAMBDA p :
         IF ~(p.ret = 0 /\ i < 255)
         THEN [st |-> st, dir_ent |-> g.dir_ent, sector |-> g.sector, offset |-> g.offset,
               ret |-> IF g.file_sector_num = first_root THEN 0 ELSE 1]
         ELSE Then(lookup(fat_read_block(st, g.file_sector_num).st, p.pr.name), LAMBDA l :
              IF l.ret # 0
              THEN IF pr_is_current_path_part_a_file(p.pr, oob) = 1 /\ create # 0
                   THEN Then(Put(ZeroEntry, 0, p.pr.name), LAMBDA e :
                        Then(add_directory_entry_to_current(l.st, e), LAMBDA a :
                             [st |-> a.st, dir_ent |-> e,
                              sector |-> IF a.ret = 1 THEN a.sector ELSE g.sector,
                              offset |-> IF a.ret = 1 THEN a.offset ELSE g.offset,
                              ret |-> a.ret]))
                   ELSE [st |-> l.st, dir_ent |-> g.dir_ent, sector |-> g.sector,
                         offset |-> g.offset, ret |-> 0]
              ELSE DirEntryLoop(l.st, p.pr,
                       [dir_ent |-> l.dir_entry, sector |-> l.sector, offset |-> l.offset,
                        file_sector_num |-> CLUSTER_TO_SECTOR(l.st.mnt, FstClus(l.dir_entry))],
                       first_root, i + 1, create, oob)))

\* dir_ent0, sector0, offset0: what the caller's variables hold before the call
get_dir_entry(st, path, dir_ent0, sector0, offset0, create, oob) ==
    Then(IF st.mnt.type = FAT16
         THEN st.mnt.BPB_RsvdSecCnt + (st.mnt.BPB_NumFATs * st.mnt.BPB_FATSz)
         ELSE IF st.mnt.type = FAT32
         THEN CLUSTER_TO_SECTOR(st.mnt, st.mnt.BPB_RootClus)
         ELSE 0, LAMBDA first_root :
         DirEntryLoop(st, [pr_reset EXCEPT !.path = path],
                      [dir_ent |-> dir_ent0, sector |-> sector0, offset |-> offset0,
                       file_sector_num |-> first_root],
                      first_root, 0, create, oob))

update_dir_entry(st, fd) ==
    Then(fat_read_block(st, st.files[fd].dir_entry_sector), LAMBDA b :
         IF b.ret # 0 THEN b.st
         ELSE [b.st EXCEPT !.buf = Put(@, st.files[fd].dir_entry_offset,
                                       st.files[fd].dir_entry),
                           !.dirty = 1])

remove_dir_entry(st, dir_entry_sector, dir_entry_offset) ==
    Then(fat_read_block(st, dir_entry_sector), LAMBDA b :
         IF b.ret # 0 THEN b.st
         ELSE [b.st EXCEPT !.buf = Put(@, dir_entry_offset,
                                       <<229>> \o Rep(<<0>>, DIR_ENTRY_SIZE - 1)),
                           !.dirty = 1])

----------------------------------------------------------------------------
(* File engine *)

\* variant of the walk that does not count its steps in fat_file_pool[fd].n
RECURSIVE AddClusterWalk_no_count(_, _, _, _, _)
AddClusterWalk_no_count(st, fd, cluster, n, seen) ==
    IF is_EOC(st.mnt, n) = 1 THEN [st |-> st, cluster |-> cluster]
    ELSE IF n \in seen THEN [st |-> [st EXCEPT !.hung = TRUE], cluster |-> cluster]
    ELSE Then(read_fat_entry(st, U32(n)), LAMBDA r :
              AddClusterWalk_no_count(r.st, fd, n, r.ret, seen \cup {n}))

\* the while loop of add_cluster_to_file: walks from n to the end of the chain.
\* The walk changes no FAT entry, so one that comes back to a cluster it has
\* left (seen) never ends.
RECURSIVE AddClusterWalk(_, _, _, _, _)
AddClusterWalk(st, fd, cluster, n, seen) ==
    IF is_EOC(st.mnt, n) = 1 THEN [st |-> st, cluster |-> cluster]
    ELSE IF n \in seen THEN [st |-> [st EXCEPT !.hung = TRUE], cluster |-> cluster]
    ELSE Then(read_fat_entry(st, U32(n)), LAMBDA r :
              AddClusterWalk([r.st EXCEPT !.files[fd].n = @ + 1], fd, n, r.ret,
                             seen \cup {n}))

add_cluster_to_file(st, fd) ==
    Then(get_free_cluster(st, U32(0)), LAMBDA g :
    Then(g.ret, LAMBDA free_cluster :
         IF g.st.files[fd].cluster = 0
         THEN [update_dir_entry(
                   [write_fat_entry(g.st, U32(free_cluster), EOC)
                       EXCEPT !.files[fd].dir_entry = SetFstClus(@, free_cluster)],
                   fd)
                 EXCEPT !.files[fd].cluster = free_cluster,
                        !.files[fd].n = 0,
                        !.files[fd].nth_cluster = free_cluster]
         ELSE Then(AddClusterWalk(g.st, fd, g.st.files[fd].nth_cluster,
                                  g.st.files[fd].nth_cluster, {}), LAMBDA k :
                   [write_fat_entry(write_fat_entry(k.st, U32(k.cluster), free_cluster),
                                    U32(free_cluster), EOC)
                      EXCEPT !.files[fd].nth_cluster = free_cluster])))

load_next_sector_of_file(st, fd, clusters, clus_offset, write) ==
    Then(IF clusters = st.files[fd].n
         THEN [st |-> st, ret |-> st.files[fd].nth_cluster]
         ELSE IF clusters = st.files[fd].n + 1
         THEN read_fat_entry(st, U32(st.files[fd].nth_cluster))
         ELSE find_nth_cluster(st, st.files[fd].cluster, clusters), LAMBDA c :
         IF c.ret = 0 \/ is_EOC(c.st.mnt, c.ret) = 1
         THEN IF write # 0
              THEN Then(add_cluster_to_file(c.st, fd), LAMBDA a :
                        fat_read_block(a, CLUSTER_TO_SECTOR(a.mnt, a.files[fd].nth_cluster)
                                          + clus_offset))
              ELSE [st |-> c.st, ret |-> 1]
         ELSE fat_read_block([c.st EXCEPT !.files[fd].nth_cluster = c.ret,
                                          !.files[fd].n = clusters],
                             CLUSTER_TO_SECTOR(c.st.mnt, c.ret) + clus_offset))

Min(a, b) == IF a < b THEN a ELSE b

\* DIR_FileSize after the inner for loop of cfs_write has stored k bytes from
\* file offset off on.  Per byte the code does
\*     if (offset == size) size++; else if (offset > size) size = offset;
\*     offset++;
\* so from off > size every byte sets size to the offset before that byte, and
\* from off <= size the size grows by the bytes stored at or behind it.
FileSizeLoop(size, off, k) ==
    IF k = 0 THEN size
    ELSE IF off > size THEN off + k - 1
    ELSE IF off + k <= size THEN size
    ELSE off + k

\* the while loop of cfs_write; j bytes are done
RECURSIVE WriteLoop(_, _, _, _, _, _, _, _)
WriteLoop(st, fd, buffer, len, offset, clusters, clus_offset, j) ==
    Then(load_next_sector_of_file(st, fd, clusters, clus_offset, 1), LAMBDA l :
         IF l.ret # 0 THEN [st |-> l.st, ret |-> j]
         ELSE Then(IF offset < l.st.mnt.BPB_BytesPerSec
                   THEN Min(l.st.mnt.BPB_BytesPerSec - offset, len - j) ELSE 0, LAMBDA k :
              Then([l.st EXCEPT
                       !.buf = Put(@, offset, Slice(buffer, j, k)),
                       !.fds[fd].offset = @ + k,
                       !.files[fd].dir_entry =
                           SetFileSize(@, FileSizeLoop(DIR_FileSize(@),
                                                       l.st.fds[fd].offset, k)),
                       !.dirty = 1], LAMBDA w :
              Then((clus_offset + 1) % l.st.mnt.BPB_SecPerClus, LAMBDA co :
                   IF j + k >= len THEN [st |-> w, ret |-> j + k]
                   ELSE WriteLoop(w, fd, buffer, len, 0,
                                  IF co = 0 THEN clusters + 1 ELSE clusters, co, j + k)))))

\* no check of fd, of the handle being open, or of its flags
cfs_write(st, fd, buffer, len) ==
    LET bps == st.mnt.BPB_BytesPerSec
        spc == st.mnt.BPB_SecPerClus
        off == st.fds[fd].offset
    IN  WriteLoop(st, fd, buffer, len, off % bps, (off \div bps) \div spc,
                  (off \div bps) % spc, 0)

\* the while loop of cfs_read; offset is not reset after the first sector
RECURSIVE ReadLoop(_, _, _, _, _, _, _, _)
ReadLoop(st, fd, len, offset, clusters, clus_offset, j, data) ==
    Then(load_next_sector_of_file(st, fd, clusters, clus_offset, 0), LAMBDA l :
         IF l.ret # 0 THEN [st |-> l.st, ret |-> j, data |-> data]
         ELSE Then(IF offset < 512 THEN Min(512 - offset, len - j) ELSE 0, LAMBDA k :
              Then([l.st EXCEPT !.fds[fd].offset = @ + k], LAMBDA r :
              Then(data \o Slice(l.st.buf, offset, k), LAMBDA d :
              Then((clus_offset + 1) % l.st.mnt.BPB_SecPerClus = 0, LAMBDA edge :
                   IF j + k >= len THEN [st |-> r, ret |-> j + k, data |-> d]
                   ELSE ReadLoop(r, fd, len, offset,
                                 IF edge THEN clusters + 1 ELSE clusters,
                                 IF edge THEN 0 ELSE clus_offset + 1, j + k, d))))))

\* the code computes offset, clusters and clus_offset from the pool before it
\* checks fd; with fd out of range the values are not used
cfs_read(st, fd, len) ==
    LET bps == st.mnt.BPB_BytesPerSec
        spc == st.mnt.BPB_SecPerClus
        off == st.fds[fd].offset
    IN  IF fd < 0 \/ fd >= FAT_FD_POOL_SIZE THEN [st |-> st, ret |-> -1, data |-> <<>>]
        ELSE IF st.files[fd].cluster = 0 THEN [st |-> st, ret |-> 0, data |-> <<>>]
        ELSE IF ~HasBit(st.fds[fd].flags, CFS_READ) THEN [st |-> st, ret |-> -1, data |-> <<>>]
        ELSE ReadLoop(st, fd, len, off % bps, (off \div bps) \div spc,
                      (off \div bps) % spc, 0, <<>>)

\* offset is signed (cfs_offset_t), DIR_FileSize is uint32_t: the comparison
\* is unsigned, so a negative offset compares as a huge one; size - 1 of an
\* empty file converts back to -1
cfs_seek(st, fd, offset, whence) ==
    IF fd < 0 \/ fd >= FAT_FD_POOL_SIZE THEN [st |-> st, ret |-> -1]
    ELSE LET size == DIR_FileSize(st.files[fd].dir_entry)
             o1 == IF whence = CFS_SEEK_SET THEN offset
                   ELSE IF whence = CFS_SEEK_CUR THEN st.fds[fd].offset + offset
                   ELSE IF whence = CFS_SEEK_END THEN (size - 1) + offset
                   ELSE st.fds[fd].offset
             o2 == IF o1 < 0 \/ o1 >= size THEN size - 1 ELSE o1
             o3 == IF o2 < 0 THEN 0 ELSE o2
         IN  [st |-> [st EXCEPT !.fds[fd].offset = o3], ret |-> o3]

_is_file(dir_ent) ==
    IF HasBit(DIR_Attr(dir_ent), ATTR_DIRECTORY) THEN 0
    ELSE IF HasBit(DIR_Attr(dir_ent), ATTR_VOLUME_ID) THEN 0
    ELSE 1

\* variant of _cfs_flags_ok that accepts every combination
_cfs_flags_ok_any(flags, dir_ent) == 1

_cfs_flags_ok(flags, dir_ent) ==
    IF (HasBit(flags, CFS_APPEND) \/ HasBit(flags, CFS_WRITE))
       /\ HasBit(DIR_Attr(dir_ent), ATTR_READ_ONLY)
    THEN 0 ELSE 1

FreeFds(st) == {i \in 0..(FAT_FD_POOL_SIZE - 1) : st.fds[i].file = 0}

\* variant of the search that takes the last free descriptor
Highest(S) == CHOOSE x \in S : \A y \in S : x >= y

\* lowest element of a non-empty set of numbers
Lowest(S) == CHOOSE x \in S : \A y \in S : x <= y

cfs_open(st, name, flags, oob) ==
    IF FreeFds(st) = {} THEN [st |-> st, ret |-> -1]
    ELSE Then(Lowest(FreeFds(st)), LAMBDA fd :
         Then(get_dir_entry(st, name, ZeroEntry, st.files[fd].dir_entry_sector,
                            st.files[fd].dir_entry_offset,
                            IF HasBit(flags, CFS_WRITE) \/ HasBit(flags, CFS_APPEND)
                            THEN 1 ELSE 0,
                            oob), LAMBDA g :
         Then([g.st EXCEPT !.files[fd].dir_entry_sector = g.sector,
                           !.files[fd].dir_entry_offset = g.offset], LAMBDA s :
              IF g.ret = 0 THEN [st |-> s, ret |-> -1]
              ELSE IF _is_file(g.dir_ent) = 0 THEN [st |-> s, ret |-> -1]
              ELSE IF _cfs_flags_ok(flags, g.dir_ent) = 0 THEN [st |-> s, ret |-> -1]
              ELSE Then([s EXCEPT !.files[fd].cluster = FstClus(g.dir_ent),
                                  !.files[fd].nth_cluster = FstClus(g.dir_ent),
                                  !.files[fd].n = 0,
                                  !.files[fd].dir_entry = g.dir_ent,
                                  !.fds[fd] = [file |-> 1, flags |-> flags % 256,
                                               offset |-> 0]], LAMBDA h :
                        IF HasBit(flags, CFS_APPEND)
                        THEN [st |-> cfs_seek(h, fd, CFS_SEEK_END, 0).st, ret |-> fd]
                        ELSE [st |-> h, ret |-> fd]))))

\* variant of cfs_close that leaves the updated directory sector unflushed
cfs_close_no_flush(st, fd) ==
    IF fd < 0 \/ fd >= FAT_FD_POOL_SIZE THEN st
    ELSE IF st.fds[fd].file = 0 THEN st
    ELSE [update_dir_entry(st, fd) EXCEPT !.fds[fd].file = 0]

cfs_close(st, fd) ==
    IF fd < 0 \/ fd >= FAT_FD_POOL_SIZE THEN st
    ELSE IF st.fds[fd].file = 0 THEN st
    ELSE [fat_flush(update_dir_entry(st, fd)) EXCEPT !.fds[fd].file = 0]

\* dirp is the caller's handle; no test of the DIRECTORY attribute
cfs_opendir(st, dirp, name, oob) ==
    Then(get_dir_entry(st, name, ZeroEntry, 0, 0, 0, oob), LAMBDA g :
         [st   |-> [g.st EXCEPT !.rdoff = 0],
          ret  |-> IF g.ret = 0 THEN -1 ELSE 0,
          dirp |-> IF g.ret = 0 THEN dirp ELSE g.dir_ent])

\* the characters written to dirent->name: the name without its pad spaces,
\* and a dot after the eighth character of the base
RECURSIVE make_readable_entry(_, _)
make_readable_entry(dir, i) ==
    IF i >= 11 THEN <<>>
    ELSE (IF DIR_Name(dir)[i + 1] # SPACE THEN <<DIR_Name(dir)[i + 1]>> ELSE <<>>)
         \o (IF i = 7 THEN <<DOT>> ELSE <<>>)
         \o make_readable_entry(dir, i + 1)

\* dirent is the caller's struct; dir_off is cfs_readdir_offset * 32 in 16 bits,
\* cluster_num is dir_off / BPB_SecPerClus cut to 16 bits
cfs_readdir(st, dirp, dirent) ==
    Then((st.rdoff * 32) % 65536, LAMBDA dir_off :
    Then(find_nth_cluster(st, FstClus(dirp),
                          (dir_off \div st.mnt.BPB_SecPerClus) % 65536), LAMBDA c :
         IF c.ret = 0 THEN [st |-> c.st, ret |-> -1, dirent |-> dirent]
         ELSE Then(fat_read_block(c.st,
                       U32Nat(U32Add(U32(CLUSTER_TO_SECTOR(c.st.mnt, c.ret)),
                                     U32(dir_off \div c.st.mnt.BPB_BytesPerSec)))),
                   LAMBDA b :
              IF b.ret # 0 THEN [st |-> b.st, ret |-> -1, dirent |-> dirent]
              ELSE Then(Slice(b.st.buf, dir_off % b.st.mnt.BPB_BytesPerSec, DIR_ENTRY_SIZE),
                        LAMBDA entry :
                   [st     |-> [b.st EXCEPT !.rdoff = (@ + 1) % 65536],
                    ret    |-> 0,
                    dirent |-> [name |-> make_readable_entry(entry, 0),
                                size |-> DIR_FileSize(entry)]]))))

cfs_closedir(st, dirp) == [st EXCEPT !.rdoff = 0]

cfs_remove(st, name, oob) ==
    Then(get_dir_entry(st, name, ZeroEntry, 0, 0, 0, oob), LAMBDA g :
         IF g.ret = 0 THEN [st |-> g.st, ret |-> -1]
         ELSE IF _is_file(g.dir_ent) = 1
         THEN [st |-> fat_flush(remove_dir_entry(reset_cluster_chain(g.st, g.dir_ent),
                                                 g.sector, g.offset)),
               ret |-> 0]
         ELSE [st |-> g.st, ret |-> -1])

----------------------------------------------------------------------------
(* Mount, unmount, FAT mirroring *)

\* 0: value is 0 or a power of two (the loop tests 1 << 0 .. 1 << 31); 1: not
is_a_power_of_2(value) ==
    IF value = 0 THEN 0
    ELSE IF \E i \in 0..30 : 2 ^ i = value THEN 0
    ELSE 1

\* what a division by zero yields: its behaviour is undefined, the division
\* routines of the target do not trap and leave some quotient
DivByZero == {"zero", "ones"}

\* a / b in w bits; ub chooses the quotient when b is 0 (the all-ones quotient
\* of 32 bits is kept as the largest number the model checker represents)
Quotient(a, b, w, ub) ==
    IF b # 0 THEN a \div b
    ELSE IF ub = "zero" THEN 0
    ELSE IF w = 16 THEN 65535 ELSE 2147483647

\* uint16_t arithmetic of the target (int is 16 bits wide on the AVR)
RootDirSectorsOf(info, ub) ==
    Quotient((((info.BPB_RootEntCnt * 32) % 65536) + (info.BPB_BytesPerSec - 1)) % 65536,
             info.BPB_BytesPerSec, 16, ub)

\* DataSec is uint32_t: a negative difference wraps to a count above 65525
determine_fat_type(info, ub) ==
    LET DataSec == info.BPB_TotSec
                   - (info.BPB_RsvdSecCnt + (info.BPB_NumFATs * info.BPB_FATSz)
                      + RootDirSectorsOf(info, ub))
        CountofClusters == Quotient(DataSec, info.BPB_SecPerClus, 32, ub)
    IN  IF DataSec < 0 THEN FAT32
        ELSE IF CountofClusters < 4085 THEN FAT12
        ELSE IF CountofClusters < 65525 THEN FAT16
        ELSE FAT32

parse_bootsector(buffer) ==
    LET TotSec16 == LE16(buffer, 19)
        FATSz16  == LE16(buffer, 22)
        info == [BPB_BytesPerSec |-> LE16(buffer, 11),
                 BPB_SecPerClus  |-> buffer[14],
                 BPB_RsvdSecCnt  |-> LE16(buffer, 14),
                 BPB_NumFATs     |-> buffer[17],
                 BPB_RootEntCnt  |-> LE16(buffer, 17),
                 BPB_TotSec      |-> IF TotSec16 = 0 THEN LE32(buffer, 32) ELSE TotSec16,
                 BPB_Media       |-> buffer[22],
                 BPB_FATSz       |-> IF FATSz16 = 0 THEN LE32(buffer, 36) ELSE FATSz16,
                 BPB_RootClus    |-> LE32(buffer, 44)]
    IN  [info |-> info,
         ret  |-> (IF is_a_power_of_2(info.BPB_BytesPerSec) # 0 THEN 1 ELSE 0)
                + (IF is_a_power_of_2(info.BPB_SecPerClus) # 0 THEN 2 ELSE 0)
                + (IF (info.BPB_BytesPerSec * info.BPB_SecPerClus) % 65536 > 32768
                   THEN 4 ELSE 0)
                + (IF info.BPB_NumFATs > 2 THEN 8 ELSE 0)
                + (IF info.BPB_TotSec = 0 THEN 16 ELSE 0)
                + (IF info.BPB_FATSz = 0 THEN 32 ELSE 0)
                + (IF buffer[511] # 85 \/ buffer[512] # 170 THEN 64 ELSE 0)]

\* the loop of fat_sync_fats from FAT sector fat_block on: each sector of FAT #1
\* is read straight into the buffer and written to the mirrors
RECURSIVE SyncLoop(_, _)
SyncLoop(st, fat_block) ==
    IF ~(fat_block < st.mnt.BPB_FATSz) THEN st
    ELSE LET r == diskio_read_block(st.disk, fat_block + st.mnt.BPB_RsvdSecCnt, st.buf)
             Mirror[k \in 1..(st.mnt.BPB_NumFATs + 1)] ==
                 IF k = 1 THEN st.disk
                 ELSE diskio_write_block(Mirror[k - 1],
                          (fat_block + st.mnt.BPB_RsvdSecCnt) + ((k - 1) * st.mnt.BPB_FATSz),
                          r.buf).disk
         IN  SyncLoop([st EXCEPT !.buf = r.buf,
                                 !.disk = Mirror[IF st.mnt.BPB_NumFATs >= 2
                                                 THEN st.mnt.BPB_NumFATs ELSE 1],
                                 !.io = Append(@, <<"sync", fat_block + st.mnt.BPB_RsvdSecCnt>>)],
                      fat_block + 1)

\* Same result as SyncLoop(st, 0) when FAT #1 and its mirrors lie on the device:
\* sectors of FAT #1 that read as zeros clear their mirror sectors, the others
\* are copied; the buffer ends up holding the last sector of FAT #1.
SyncBulk(st) ==
    LET rsvd == st.mnt.BPB_RsvdSecCnt
        fsz  == st.mnt.BPB_FATSz
        nf   == st.mnt.BPB_NumFATs
        d    == st.disk.data
        InFat1(x) == x >= rsvd /\ x < rsvd + fsz
        InMirror(x) == nf >= 2 /\ x >= rsvd + fsz /\ x < rsvd + nf * fsz
        Src(x) == rsvd + ((x - rsvd) % fsz)
        keep == {x \in DOMAIN d : ~InMirror(x)}
        copy == {x + (k - 1) * fsz : x \in {y \in DOMAIN d : InFat1(y)}, k \in 2..nf}
    IN  IF fsz = 0 THEN st
        ELSE [st EXCEPT !.disk.data = [x \in keep \cup copy |->
                                          IF x \in copy THEN d[Src(x)] ELSE d[x]],
                        !.buf = OnDisk(st.disk, rsvd + fsz - 1),
                        !.io = Append(@, <<"sync", rsvd + fsz - 1>>)]

\* variant of fat_sync_fats that copies without writing the buffer out first
fat_sync_fats_no_flush(st) ==
    IF st.mnt.BPB_RsvdSecCnt + (IF st.mnt.BPB_NumFATs >= 2 THEN st.mnt.BPB_NumFATs ELSE 1)
                               * st.mnt.BPB_FATSz <= st.disk.nsec
    THEN SyncBulk(st)
    ELSE SyncLoop(st, 0)

fat_sync_fats(st) ==
    Then(fat_flush(st), LAMBDA f :
         IF f.mnt.BPB_RsvdSecCnt + (IF f.mnt.BPB_NumFATs >= 2 THEN f.mnt.BPB_NumFATs ELSE 1)
                                   * f.mnt.BPB_FATSz <= f.disk.nsec
         THEN SyncBulk(f)
         ELSE SyncLoop(f, 0))

\* variant of fat_umount_device that leaves the file descriptors as they are
fat_umount_device_keep_fds(st) ==
    [fat_sync_fats(fat_flush(st)) EXCEPT !.mnt.dev = 0]

fat_umount_device(st) ==
    [fat_sync_fats(fat_flush(st)) EXCEPT
        !.fds = [i \in 0..(FAT_FD_POOL_SIZE - 1) |-> [st.fds[i] EXCEPT !.file = 0]],
        !.mnt.dev = 0]

\* sector 0 is read straight into the buffer: no flush, sector_buffer_addr and
\* the dirty flag stay as they are
fat_mount_device(st, dev, ub) ==
    Then(IF st.mnt.dev # 0 THEN fat_umount_device(st) ELSE st, LAMBDA u :
    Then(diskio_read_block(u.disk, 0, u.buf).buf, LAMBDA b :
    Then(parse_bootsector(b), LAMBDA p :
    Then([u EXCEPT !.buf = b, !.io = Append(@, <<"read", 0>>),
                       !.mnt.BPB_BytesPerSec = p.info.BPB_BytesPerSec,
                       !.mnt.BPB_SecPerClus = p.info.BPB_SecPerClus,
                       !.mnt.BPB_RsvdSecCnt = p.info.BPB_RsvdSecCnt,
                       !.mnt.BPB_NumFATs = p.info.BPB_NumFATs,
                       !.mnt.BPB_RootEntCnt = p.info.BPB_RootEntCnt,
                       !.mnt.BPB_TotSec = p.info.BPB_TotSec,
                       !.mnt.BPB_Media = p.info.BPB_Media,
                       !.mnt.BPB_FATSz = p.info.BPB_FATSz,
                       !.mnt.BPB_RootClus = p.info.BPB_RootClus], LAMBDA i :
         IF p.ret # 0 THEN [st |-> i, ret |-> 1]
         ELSE Then([i EXCEPT !.mnt.type = determine_fat_type(p.info, ub)], LAMBDA t :
                   IF t.mnt.type # FAT16 /\ t.mnt.type # FAT32 THEN [st |-> t, ret |-> 2]
                   ELSE [st |-> [t EXCEPT !.mnt.dev = dev,
                                          !.mnt.first_data_sector =
                                              t.mnt.BPB_RsvdSecCnt
                                              + (t.mnt.BPB_NumFATs * t.mnt.BPB_FATSz)
                                              + RootDirSectorsOf(t.mnt, ub)],
                         ret |-> 0])))))

----------------------------------------------------------------------------
(* Volumes the device may hold: freshly formatted, empty root directory *)

\* FAT16, 1 sector per cluster, 32 root entries (2 root sectors), 4200 clusters
Geo16 == [spc |-> 1, rsvd |-> 1, numfats |-> 2, rootent |-> 32, totsec16 |-> 4235,
          fatsz16 |-> 16, totsec32 |-> 0, fatsz32 |-> 0, rootclus |-> 0,
          nsec |-> 4235, fat |-> <<248, 255, 255, 255>>]

\* FAT32, 2 sectors per cluster, root directory in cluster 2, 2 GiB device
Geo32 == [spc |-> 2, rsvd |-> 32, numfats |-> 2, rootent |-> 0, totsec16 |-> 0,
          fatsz16 |-> 0, totsec32 |-> 4194304, fatsz32 |-> 16384, rootclus |-> 2,
          nsec |-> 4194304,
          fat |-> <<248, 255, 255, 15, 255, 255, 255, 15, 255, 255, 255, 15>>]

Geometries == {Geo16, Geo32}

BootSector(g) ==
    Put(Put(Put(Put(Put(ZeroSector,
        0,   <<235, 60, 144>>),
        11,  <<0, 2, g.spc, Byte(g.rsvd, 0), Byte(g.rsvd, 1), g.numfats,
               Byte(g.rootent, 0), Byte(g.rootent, 1),
               Byte(g.totsec16, 0), Byte(g.totsec16, 1), 248,
               Byte(g.fatsz16, 0), Byte(g.fatsz16, 1)>>),
        32,  <<Byte(g.totsec32, 0), Byte(g.totsec32, 1), Byte(g.totsec32, 2),
               Byte(g.totsec32, 3), Byte(g.fatsz32, 0), Byte(g.fatsz32, 1),
               Byte(g.fatsz32, 2), Byte(g.fatsz32, 3)>>),
        44,  <<Byte(g.rootclus, 0), Byte(g.rootclus, 1), Byte(g.rootclus, 2),
               Byte(g.rootclus, 3)>>),
        510, <<85, 170>>)

Image(g) ==
    LET fsz == IF g.fatsz16 # 0 THEN g.fatsz16 ELSE g.fatsz32
        fat == Put(ZeroSector, 0, g.fat)
    IN  [nsec |-> g.nsec,
         data |-> [s \in {0, g.rsvd, g.rsvd + fsz} |->
                      IF s = 0 THEN BootSector(g) ELSE fat]]

----------------------------------------------------------------------------
(* Inputs of the public calls *)

DEV == 1

Paths == {<<97, 98>>}

\* reads of path[] behind the NUL happen only for a one-character first token
OobOf(path) == IF Len(path) = 1 THEN {0, SLASH, 120} ELSE {0}

OpenFlags == {CFS_READ, CFS_WRITE, CFS_READ + CFS_WRITE, CFS_APPEND}

WriteLens == {4, 510}

ReadLens == {4, 514}

Seeks == {<<0, CFS_SEEK_SET>>, <<-4, CFS_SEEK_CUR>>}

Fds == 0..(FAT_FD_POOL_SIZE - 1)

\* the caller's buffer of a write of len bytes
WBuf(len) == SubSeq(Rep(<<65, 66, 67, 68, 69, 70, 71>>, (len \div 7) + 1), 1, len)

----------------------------------------------------------------------------
(* The state machine *)

\* the machine record of the current state
Cur == [disk |-> disk, buf |-> sector_buffer, addr |-> sector_buffer_addr,
        dirty |-> sector_buffer_dirty, rdoff |-> cfs_readdir_offset,
        mnt |-> mounted, files |-> fat_file_pool, fds |-> fat_fd_pool,
        hung |-> FALSE, io |-> <<>>]

\* the call returns (it does not spin for ever) and leaves st
Commit(st) ==
    /\ ~st.hung
    /\ disk' = st.disk
    /\ sector_buffer' = st.buf
    /\ sector_buffer_addr' = st.addr
    /\ sector_buffer_dirty' = st.dirty
    /\ cfs_readdir_offset' = st.rdoff
    /\ mounted' = st.mnt
    /\ fat_file_pool' = st.files
    /\ fat_fd_pool' = st.fds

NoOp == [name |-> "none", fd |-> -1, path |-> <<>>, flags |-> 0, len |-> 0,
         off |-> 0, whence |-> 0, data |-> <<>>]

\* the clusters met when following the FAT from cluster c on
RECURSIVE ChainFrom(_, _, _)
ChainFrom(st, c, seen) ==
    IF c < 2 \/ is_EOC(st.mnt, c) = 1 \/ c \in seen THEN seen
    ELSE ChainFrom(st, read_fat_entry(st, U32(c)).ret, seen \cup {c})

\* the directory entry path resolves to, as cfs_remove looks it up
Resolve(st, path, oob) == get_dir_entry(st, path, ZeroEntry, 0, 0, 0, oob)

\* the cluster chain of the file path resolves to
ChainOf(st, path, oob) ==
    LET g == Resolve(st, path, oob)
    IN  IF g.ret = 0 THEN {} ELSE ChainFrom(g.st, FstClus(g.dir_ent), {})

\* what the history keeps of the state before a call; chain is the cluster
\* chain of the file a remove is called for
Before(st, chain) == [files |-> st.files, fds |-> st.fds, chain |-> chain]

Max(a, b) == IF a > b THEN a ELSE b

\* the state after construction, with one of the devices D attached and one of
\* the tokens T at hand for _make_valid_name
InitWith(D, T) ==
    /\ disk \in D
    /\ sector_buffer = ZeroSector
    /\ sector_buffer_addr = 0
    /\ sector_buffer_dirty = 0
    /\ cfs_readdir_offset = 0
    /\ mounted = [dev |-> 0, type |-> FAT12, first_data_sector |-> 0,
                  BPB_BytesPerSec |-> 0, BPB_SecPerClus |-> 0, BPB_RsvdSecCnt |-> 0,
                  BPB_NumFATs |-> 0, BPB_RootEntCnt |-> 0, BPB_TotSec |-> 0,
                  BPB_Media |-> 0, BPB_FATSz |-> 0, BPB_RootClus |-> 0]
    /\ fat_file_pool = [i \in Fds |-> [cluster |-> 0, dir_entry_sector |-> 0,
                                       dir_entry_offset |-> 0, nth_cluster |-> 0,
                                       n |-> 0, dir_entry |-> ZeroEntry]]
    /\ fat_fd_pool = [i \in Fds |-> [file |-> 0, flags |-> 0, offset |-> 0]]
    /\ op \in {[NoOp EXCEPT !.path = t] : t \in T}
    /\ ret = 0
    /\ old = Before(Cur, {})
    /\ hist = [plain |-> TRUE, wmax |-> [i \in Fds |-> 0]]
    /\ nops = 0

Init == InitWith({Image(g) : g \in Geometries}, {<<>>})

\* every call counts; the file calls are made on a mounted volume, reads and
\* writes on open handles
\* hist.plain: only a first mount and open, write, close, remove were called;
\* hist.wmax[fd]: the file size when fd was opened, raised to every offset a
\* successful write on fd has reached since
Called(o, chain) ==
    /\ nops < MaxOps
    /\ nops' = nops + 1
    /\ op' = o
    /\ old' = Before(Cur, chain)
    /\ hist' = [plain |-> hist.plain
                          /\ (o.name \in {"open", "write", "close", "remove"}
                              \/ (o.name = "mount" /\ nops = 0)),
                wmax  |-> [i \in Fds |->
                             IF o.name = "open" /\ ret' = i
                             THEN DIR_FileSize(fat_file_pool'[i].dir_entry)
                             ELSE IF o.name = "write" /\ o.fd = i /\ ret' > 0
                             THEN Max(hist.wmax[i], fat_fd_pool'[i].offset)
                             ELSE hist.wmax[i]]]

Mount ==
    /\ \E ub \in DivByZero :
          LET r == fat_mount_device(Cur, DEV, ub)
          IN  Commit(r.st) /\ ret' = r.ret
    /\ Called([NoOp EXCEPT !.name = "mount"], {})

Umount ==
    /\ mounted.dev # 0
    /\ Commit(fat_umount_device(Cur)) /\ ret' = 0
    /\ Called([NoOp EXCEPT !.name = "umount"], {})

Flush ==
    /\ mounted.dev # 0
    /\ Commit(fat_flush(Cur)) /\ ret' = 0
    /\ Called([NoOp EXCEPT !.name = "flush"], {})

SyncFats ==
    /\ mounted.dev # 0
    /\ Commit(fat_sync_fats(Cur)) /\ ret' = 0
    /\ Called([NoOp EXCEPT !.name = "sync_fats"], {})

\* cfs_open called with one of the paths P
OpenIn(P) ==
    /\ mounted.dev # 0
    /\ \E path \in P, flags \in OpenFlags : \E oob \in OobOf(path) :
          /\ LET r == cfs_open(Cur, path, flags, oob)
             IN  Commit(r.st) /\ ret' = r.ret
          /\ Called([NoOp EXCEPT !.name = "open", !.path = path, !.flags = flags], {})

Open == OpenIn(Paths)

Close ==
    /\ mounted.dev # 0
    /\ \E fd \in 0..FAT_FD_POOL_SIZE :
          /\ Commit(cfs_close(Cur, fd)) /\ ret' = 0
          /\ Called([NoOp EXCEPT !.name = "close", !.fd = fd], {})

Read ==
    /\ mounted.dev # 0
    /\ \E fd \in Fds, len \in ReadLens :
          /\ fat_fd_pool[fd].file = 1
          /\ LET r == cfs_read(Cur, fd, len)
             IN  /\ Commit(r.st) /\ ret' = r.ret
                 /\ Called([NoOp EXCEPT !.name = "read", !.fd = fd, !.len = len,
                                        !.data = r.data], {})

Write ==
    /\ mounted.dev # 0
    /\ \E fd \in Fds, len \in WriteLens :
          /\ fat_fd_pool[fd].file = 1
          /\ LET r == cfs_write(Cur, fd, WBuf(len), len)
             IN  Commit(r.st) /\ ret' = r.ret
          /\ Called([NoOp EXCEPT !.name = "write", !.fd = fd, !.len = len,
                                 !.data = WBuf(len)], {})

Seek ==
    /\ mounted.dev # 0
    /\ \E fd \in 0..FAT_FD_POOL_SIZE, s \in Seeks :
          /\ LET r == cfs_seek(Cur, fd, s[1], s[2])
             IN  Commit(r.st) /\ ret' = r.ret
          /\ Called([NoOp EXCEPT !.name = "seek", !.fd = fd, !.off = s[1],
                                 !.whence = s[2]], {})

Remove ==
    /\ mounted.dev # 0
    /\ \E path \in Paths : \E oob \in OobOf(path) :
          /\ LET r == cfs_remove(Cur, path, oob)
             IN  Commit(r.st) /\ ret' = r.ret
          /\ Called([NoOp EXCEPT !.name = "remove", !.path = path], ChainOf(Cur, path, oob))

Next ==
    \/ Mount
    \/ Umount
    \/ Flush
    \/ SyncFats
    \/ Open
    \/ Close
    \/ Read
    \/ Write
    \/ Seek
    \/ Remove

Spec == Init /\ [][Next]_vars

----------------------------------------------------------------------------
(* Properties *)

\* the 32 bytes the device holds in a directory slot
SlotOnDisk(d, sector, offset) == Slice(OnDisk(d, sector), offset, DIR_ENTRY_SIZE)

\* FAT entry of cluster c as the device holds it in FAT #1
FatOnDisk(st, c) ==
    LET b == calc_fat_block(st.mnt, U32(c))
        s == OnDisk(st.disk, b.fat_sec_num)
    IN  IF st.mnt.type = FAT16 THEN LE16(s, b.ent_offset)
        ELSE (s[b.ent_offset + 4] % 16) * 16777216 + s[b.ent_offset + 3] * 65536
             + LE16(s, b.ent_offset)

\* C5: after remove(p) has returned 0, the FAT entry of every cluster of the
\* chain the file had before the call reads as 0, through read_fat_entry and on
\* the device.
C5_DeleteFreesChain ==
    (op.name = "remove" /\ ret = 0) =>
        \A c \in old.chain :
            /\ read_fat_entry(Cur, U32(c)).ret = 0
            /\ FatOnDisk(Cur, c) = 0

\* a file of two clusters has been removed
C5_Witness ==
    /\ op.name = "remove"
    /\ ret = 0
    /\ Cardinality(old.chain) >= 2

\* C7: after every public call, a clean buffer with a non-zero address holds
\* what the device holds in that sector.
C7_BufferCoherent ==
    (nops > 0 /\ sector_buffer_addr # 0 /\ sector_buffer_dirty = 0) =>
        sector_buffer = OnDisk(disk, sector_buffer_addr)

\* C10: close of an open handle leaves the handle's cached directory entry in
\* its slot on the device, the buffer clean and the handle free; close of an
\* fd that is out of range or not open changes nothing.
C10_Close ==
    /\ (op.name = "close" /\ op.fd \in Fds /\ old.fds[op.fd].file = 1) =>
          /\ SlotOnDisk(disk, old.files[op.fd].dir_entry_sector,
                        old.files[op.fd].dir_entry_offset)
                = old.files[op.fd].dir_entry
          /\ sector_buffer_addr = old.files[op.fd].dir_entry_sector
          /\ sector_buffer_dirty = 0
          /\ sector_buffer = OnDisk(disk, sector_buffer_addr)
          /\ fat_fd_pool = [old.fds EXCEPT ![op.fd].file = 0]
          /\ fat_file_pool = old.files
    /\ \A fd \in (-1)..FAT_FD_POOL_SIZE :
          (fd \notin Fds \/ fat_fd_pool[fd].file = 0) => cfs_close(Cur, fd) = Cur

\* a handle with written bytes has been closed, and some fd is not open
C10_Witness ==
    /\ op.name = "close"
    /\ op.fd \in Fds
    /\ old.fds[op.fd].file = 1
    /\ DIR_FileSize(old.files[op.fd].dir_entry) > 0
    /\ FstClus(old.files[op.fd].dir_entry) >= 2
    /\ fat_fd_pool[op.fd].file = 0

----------------------------------------------------------------------------
(* Laws of call sequences, stated over the calls made from the current state *)

\* further path the laws are tried for: the one-character name "f"
LawPaths == Paths \cup {<<102>>}

\* the calls write(fd, WBuf(lens[1])), write(fd, WBuf(lens[2])), ... in a row:
\* the state they leave, whether each returned its length, and the bytes
RECURSIVE WriteAll(_, _, _, _, _)
WriteAll(st, fd, lens, ok, bytes) ==
    IF lens = <<>> THEN [st |-> st, ok |-> ok, bytes |-> bytes]
    ELSE LET w == cfs_write(st, fd, WBuf(Head(lens)), Head(lens))
         IN  WriteAll(w.st, fd, Tail(lens), ok /\ w.ret = Head(lens) /\ ~w.st.hung,
                      bytes \o WBuf(Head(lens)))

\* lengths of the write calls a file is filled with
WritePlans == {<<>>, <<4>>, <<510, 4>>}

\* open(path, READ) and read(fd, n) from st: does the open succeed, which size
\* does the handle show, what does the read return
ReadBack(st, path, n, oob) ==
    LET o == cfs_open(st, path, CFS_READ, oob)
        r == IF o.ret >= 0 THEN cfs_read(o.st, o.ret, n)
             ELSE [st |-> o.st, ret |-> -1, data |-> <<>>]
    IN  [fd   |-> o.ret,
         size |-> IF o.ret >= 0 THEN DIR_FileSize(o.st.files[o.ret].dir_entry) ELSE -1,
         ret  |-> IF n = 0 /\ o.ret >= 0 THEN 0 ELSE r.ret,
         data |-> IF n = 0 THEN <<>> ELSE r.data]

\* path names no file and a handle is free: open(path, WRITE) creates the file
CanCreate(st, path, oob) ==
    /\ st.mnt.dev # 0
    /\ FreeFds(st) # {}
    /\ Resolve(st, path, oob).ret = 0

C2_ReadAfterWrite ==
    (/\ op.name = "write"
     /\ ret = op.len
     /\ fat_fd_pool[op.fd].file = 1
     /\ fat_fd_pool[op.fd].flags = CFS_READ + CFS_WRITE) =>
        LET s == cfs_seek(Cur, op.fd, -op.len, CFS_SEEK_CUR)
            r == cfs_read(s.st, op.fd, op.len)
        IN  r.ret = op.len /\ r.data = op.data

\* C3: open with APPEND leaves the handle at the end of the file; a file
\* created with 4 bytes, closed, opened with APPEND, given 4 more bytes and
\* closed holds the 8 bytes in order and has size 8.
C3_Append ==
    /\ (op.name = "open" /\ HasBit(op.flags, CFS_APPEND) /\ ret >= 0) =>
          fat_fd_pool[ret].offset = DIR_FileSize(fat_file_pool[ret].dir_entry)
    /\ \A path \in LawPaths : \A oob \in OobOf(path) :
          CanCreate(Cur, path, oob) =>
              LET o1 == cfs_open(Cur, path, CFS_WRITE, oob)
                  w1 == WriteAll(o1.st, o1.ret, <<4>>, TRUE, <<>>)
                  c1 == cfs_close(w1.st, o1.ret)
                  o2 == cfs_open(c1, path, CFS_APPEND, oob)
                  w2 == WriteAll(o2.st, o2.ret, <<4>>, TRUE, <<>>)
                  c2 == cfs_close(w2.st, o2.ret)
                  b  == ReadBack(c2, path, 8, oob)
              IN  (o1.ret >= 0 /\ w1.ok /\ o2.ret >= 0 /\ w2.ok) =>
                      /\ b.size = 8
                      /\ b.data = WBuf(4) \o WBuf(4)

\* some slot of the directory sectors the device holds carries the name
RootSectors(st) ==
    IF st.mnt.type = FAT16
    THEN LET first == st.mnt.BPB_RsvdSecCnt + (st.mnt.BPB_NumFATs * st.mnt.BPB_FATSz)
         IN  first..(st.mnt.first_data_sector - 1)
    ELSE LET first == CLUSTER_TO_SECTOR(st.mnt, st.mnt.BPB_RootClus)
         IN  first..(first + st.mnt.BPB_SecPerClus - 1)

SlotWithName(st, name) ==
    \E sec \in RootSectors(st) : \E k \in 0..15 :
        Slice(OnDisk(fat_flush(st).disk, sec), k * DIR_ENTRY_SIZE, 11) = name

\* C4: when open(p, WRITE) has created p, after close and remove(p) an
\* open(p, READ) returns -1 and no slot of the directory carries p's name.
C4_CreateThenRemove ==
    \A path \in LawPaths : \A oob \in OobOf(path) :
        CanCreate(Cur, path, oob) =>
            LET o == cfs_open(Cur, path, CFS_WRITE, oob)
                c == cfs_close(o.st, o.ret)
                r == cfs_remove(c, path, oob)
                b == cfs_open(r.st, path, CFS_READ, oob)
                n == _make_valid_name(path, 0, Len(path), oob).name
            IN  (o.ret >= 0 /\ ~o.st.hung) =>
                    /\ b.ret = -1
                    /\ ~SlotWithName(b.st, n)

\* C6: the size an open handle caches is the size the file had when the
\* handle was opened, raised to the greatest offset a successful write on the
\* handle has reached; it does not shrink from one call to the next.
C6_FileSize ==
    \A fd \in Fds :
        fat_fd_pool[fd].file = 1 =>
            /\ DIR_FileSize(fat_file_pool[fd].dir_entry) = hist.wmax[fd]
            /\ (old.fds[fd].file = 1 =>
                   DIR_FileSize(fat_file_pool[fd].dir_entry)
                       >= DIR_FileSize(old.files[fd].dir_entry))

\* the chain from cluster c on ends in an end-of-chain mark without meeting a
\* free or reserved entry or a cluster of seen again
RECURSIVE ChainEnds(_, _, _)
ChainEnds(st, c, seen) ==
    IF c < 2 \/ c \in seen THEN FALSE
    ELSE LET e == read_fat_entry(st, U32(c)).ret
         IN  IF is_EOC(st.mnt, e) = 1 THEN TRUE
             ELSE ChainEnds(st, e, seen \cup {c})

\* C8: after a first mount and any calls of open, write, close and remove, the
\* chain of every file a path resolves to is empty (first cluster 0) or runs
\* through clusters >= 2 to an end-of-chain mark, without a free entry and
\* without a cycle.
C8_ChainWellFormed ==
    (hist.plain /\ mounted.dev # 0) =>
        \A path \in Paths :
            LET g == Resolve(Cur, path, 0)
            IN  (g.ret # 0 /\ FstClus(g.dir_ent) # 0) =>
                    ChainEnds(g.st, FstClus(g.dir_ent), {})

\* what the volume presents for path: whether it resolves and, if so, the
\* entry's name, size and first cluster and the bytes a READ handle reads
FileView(st, path) ==
    LET g == Resolve(st, path, 0)
        h == [g.st EXCEPT
                 !.files[0] = [cluster |-> FstClus(g.dir_ent),
                               nth_cluster |-> FstClus(g.dir_ent), n |-> 0,
                               dir_entry_sector |-> g.sector,
                               dir_entry_offset |-> g.offset,
                               dir_entry |-> g.dir_ent],
                 !.fds[0] = [file |-> 1, flags |-> CFS_READ, offset |-> 0]]
    IN  IF g.ret = 0 THEN <<"absent">>
        ELSE <<"file", DIR_Name(g.dir_ent), DIR_FileSize(g.dir_ent), FstClus(g.dir_ent),
               cfs_read(h, 0, Min(DIR_FileSize(g.dir_ent), 4 * SECTOR_SIZE)).data>>

\* C9: umount and mount of the same device from a mounted state returns 0 and
\* the volume presents every path as before.
C9_MountRoundTrip ==
    mounted.dev # 0 =>
        LET m == fat_mount_device(fat_umount_device(Cur), DEV, "ones")
        IN  /\ m.ret = 0
            /\ \A path \in Paths : FileView(m.st, path) = FileView(Cur, path)

----------------------------------------------------------------------------
(* Volumes with a populated root directory: a read-only file RO (4 bytes in *)
(* the first free cluster), a directory DI (the cluster after it) and a     *)
(* volume label VO                                                          *)

PathRO == <<114, 111>>
PathDI == <<100, 105>>
PathVO == <<118, 111>>
PathNone == <<110, 111>>

AttrPaths == {PathRO, PathDI, PathVO, PathNone}

\* a directory entry as a formatter writes it
DirEntry(name, attr, clus, size) ==
    SetFileSize(SetFstClus(Put(Put(ZeroEntry, 0, name), 11, <<attr>>), clus), size)

\* g with the three entries in the first sector of its root directory, and the
\* entries "." and ".." in the cluster of the directory
PopulatedImage(g) ==
    LET fsz   == IF g.fatsz16 # 0 THEN g.fatsz16 ELSE g.fatsz32
        root  == g.rsvd + g.numfats * fsz
        data  == root + ((g.rootent * 32) \div SECTOR_SIZE)
        c1    == IF g.rootclus # 0 THEN g.rootclus + 1 ELSE 2
        eoc   == IF g.fatsz16 # 0 THEN <<255, 255>> ELSE <<255, 255, 255, 15>>
        fat   == Put(ZeroSector, 0, g.fat \o eoc \o eoc)
        dir   == Put(ZeroSector, 0,
                     DirEntry(_make_valid_name(PathRO, 0, 2, 0).name, ATTR_READ_ONLY, c1, 4)
                     \o DirEntry(_make_valid_name(PathDI, 0, 2, 0).name, ATTR_DIRECTORY,
                                 c1 + 1, 0)
                     \o DirEntry(_make_valid_name(PathVO, 0, 2, 0).name, ATTR_VOLUME_ID, 0, 0))
    IN  [nsec |-> g.nsec,
         data |-> (0 :> BootSector(g)) @@ (g.rsvd :> fat) @@ ((g.rsvd + fsz) :> fat)
                  @@ (root :> dir)
                  @@ ((data + (c1 - 2) * g.spc) :> Put(ZeroSector, 0, <<82, 79, 33, 10>>))
                  @@ ((data + (c1 - 1) * g.spc) :>
                         Put(ZeroSector, 0,
                             DirEntry(<<DOT>> \o Rep(<<SPACE>>, 10), ATTR_DIRECTORY, c1 + 1, 0)
                             \o DirEntry(<<DOT, DOT>> \o Rep(<<SPACE>>, 9), ATTR_DIRECTORY,
                                         0, 0)))]

InitAttr == InitWith({PopulatedImage(g) : g \in Geometries}, {<<>>})

OpenAttr == OpenIn(AttrPaths)

NextAttr ==
    \/ Mount
    \/ OpenAttr
    \/ Close

SpecAttr == InitAttr /\ [][NextAttr]_vars

\* the device content once a dirty buffer is written out
Flushed(st) == fat_flush(st).disk

\* C11: open returns -1 and takes no handle when the path does not resolve
\* and neither WRITE nor APPEND is asked for, when the entry is a directory or
\* a volume label, and when WRITE or APPEND is asked for on a read-only entry;
\* in the first case the content of the device, a dirty buffer counted in,
\* stays as it is.
C11_OpenRejects ==
    mounted.dev # 0 =>
        \A path \in AttrPaths, flags \in OpenFlags :
            LET g == Resolve(Cur, path, 0)
                o == cfs_open(Cur, path, flags, 0)
                create == HasBit(flags, CFS_WRITE) \/ HasBit(flags, CFS_APPEND)
                rejected == \/ g.ret = 0 /\ ~create
                            \/ g.ret # 0 /\ HasBit(DIR_Attr(g.dir_ent), ATTR_DIRECTORY)
                            \/ g.ret # 0 /\ HasBit(DIR_Attr(g.dir_ent), ATTR_VOLUME_ID)
                            \/ g.ret # 0 /\ create
                               /\ HasBit(DIR_Attr(g.dir_ent), ATTR_READ_ONLY)
            IN  /\ rejected =>
                      /\ o.ret = -1
                      /\ \A i \in Fds : o.st.fds[i] = Cur.fds[i]
                /\ (g.ret = 0 /\ ~create) => Flushed(o.st) = Flushed(Cur)

\* an open for writing of the read-only file has been rejected
C11_Witness ==
    /\ op.name = "open"
    /\ op.path = PathRO
    /\ HasBit(op.flags, CFS_WRITE)
    /\ ret = -1
    /\ Resolve(Cur, PathRO, 0).ret # 0
    /\ HasBit(DIR_Attr(Resolve(Cur, PathRO, 0).dir_ent), ATTR_READ_ONLY)
    /\ \E i \in Fds : fat_fd_pool[i].file = 1

\* C12: on a mounted volume cfs_read returns -1 and leaves the whole state
\* (offsets, cluster hints, sector buffer, device) as it was whenever fd is out
\* of range, the descriptor is not open, or it was opened without CFS_READ,
\* whether or not the file is empty.
C12_ReadRejects ==
    mounted.dev # 0 =>
        \A fd \in -1..FAT_FD_POOL_SIZE, len \in ReadLens :
            LET r == cfs_read(Cur, fd, len)
                invalid == \/ fd \notin Fds
                           \/ fat_fd_pool[fd].file = 0
                           \/ ~HasBit(fat_fd_pool[fd].flags, CFS_READ)
            IN  invalid => r.ret = -1 /\ r.st = Cur

\* C13: on a mounted volume cfs_write on a descriptor that is not open, or that
\* was opened without CFS_WRITE and without CFS_APPEND, returns -1 and has no
\* side effect: device (so the FAT), sector buffer, dirty flag, offsets and
\* cached directory entries are as before.
C13_WriteRejects ==
    mounted.dev # 0 =>
        \A fd \in Fds, len \in WriteLens :
            LET r == cfs_write(Cur, fd, WBuf(len), len)
                invalid == \/ fat_fd_pool[fd].file = 0
                           \/ /\ ~HasBit(fat_fd_pool[fd].flags, CFS_WRITE)
                              /\ ~HasBit(fat_fd_pool[fd].flags, CFS_APPEND)
            IN  invalid => r.ret = -1 /\ r.st = Cur

\* the offsets a seek is asked for
SeekOffsets == {-4, -1, 0, 2, 4, 600}

\* C14: cfs_seek on an open handle of a non-empty file moves the offset to
\* offset (CFS_SEEK_SET), old offset + offset (CFS_SEEK_CUR) or
\* (DIR_FileSize - 1) + offset (CFS_SEEK_END), clamped into
\* [0, DIR_FileSize - 1] (below 0 gives 0, above gives DIR_FileSize - 1),
\* stores it and returns it, changing nothing else; with fd out of range it
\* returns -1 and changes nothing.
C14_SeekClamps ==
    mounted.dev # 0 =>
        \A fd \in -1..FAT_FD_POOL_SIZE, offset \in SeekOffsets,
           whence \in {CFS_SEEK_SET, CFS_SEEK_CUR, CFS_SEEK_END} :
            LET r == cfs_seek(Cur, fd, offset, whence)
            IN  IF fd \notin Fds THEN r.ret = -1 /\ r.st = Cur
                ELSE LET size == DIR_FileSize(fat_file_pool[fd].dir_entry)
                         target == IF whence = CFS_SEEK_SET THEN offset
                                   ELSE IF whence = CFS_SEEK_CUR
                                   THEN fat_fd_pool[fd].offset + offset
                                   ELSE (size - 1) + offset
                         clamped == IF target < 0 THEN 0
                                    ELSE IF target > size - 1 THEN size - 1
                                    ELSE target
                     IN  (fat_fd_pool[fd].file = 1 /\ size > 0) =>
                             /\ r.ret = clamped
                             /\ r.st = [Cur EXCEPT !.fds[fd].offset = clamped]

\* the byte counts of the first write to a new file
FirstWriteLens == {0, 4, 512, 513, 1024, 2000}

\* longest cluster chain followed
MaxChain == 8

\* number of clusters of the chain headed by c when it ends in an end-of-chain
\* mark within MaxChain links, -1 otherwise; n clusters are counted so far
RECURSIVE ChainLength(_, _, _)
ChainLength(st, c, n) ==
    IF c = 0 THEN (IF n = 0 THEN 0 ELSE -1)
    ELSE IF is_EOC(st.mnt, c) = 1 THEN (IF n = 0 THEN -1 ELSE n)
    ELSE IF c < 2 \/ n >= MaxChain THEN -1
    ELSE ChainLength(st, read_fat_entry(st, U32(c)).ret, n + 1)

\* ceil(a / b)
CeilDiv(a, b) == (a + b - 1) \div b

\* fd is the handle the last call, a cfs_open with CFS_WRITE or CFS_APPEND,
\* returned for a file that is empty
NewEmptyFile(fd) ==
    /\ op.name = "open" /\ ret = fd
    /\ HasBit(op.flags, CFS_WRITE) \/ HasBit(op.flags, CFS_APPEND)
    /\ fat_fd_pool[fd].file = 1 /\ fat_fd_pool[fd].offset = 0
    /\ fat_file_pool[fd].cluster = 0
    /\ DIR_FileSize(fat_file_pool[fd].dir_entry) = 0

\* C15: a cfs_write of N >= 0 bytes from offset 0 to a newly created, empty file
\* leaves the first cluster of the cached directory entry heading a chain of
\* exactly ceil(N / (BPB_BytesPerSec * BPB_SecPerClus)) clusters that ends in
\* one end-of-chain mark: none for N = 0, and no extra one when the write ends
\* on a cluster boundary.
C15_ClusterExtension ==
    \A fd \in Fds, N \in FirstWriteLens :
        NewEmptyFile(fd) =>
            LET w == cfs_write(Cur, fd, WBuf(N), N)
            IN  /\ w.ret = N
                /\ ChainLength(w.st, FstClus(w.st.files[fd].dir_entry), 0)
                       = CeilDiv(N, mounted.BPB_BytesPerSec * mounted.BPB_SecPerClus)

----------------------------------------------------------------------------
(* _make_valid_name applied to tokens; a volume whose root directory holds  *)
(* the file FOO.TXT (4 bytes in the first free cluster)                     *)

\* "foo.txt", "FOO.TXT", "Foo.TxT"
PathFooLower == <<102, 111, 111, 46, 116, 120, 116>>
PathFooUpper == <<70, 79, 79, 46, 84, 88, 84>>
PathFooMixed == <<70, 111, 111, 46, 84, 120, 84>>

CasePaths == {PathFooLower, PathFooUpper, PathFooMixed}

\* "FOO     TXT"
FooName == <<70, 79, 79, 32, 32, 32, 32, 32, 84, 88, 84>>

\* longest token made of the characters f, F and .
MaxToken == 4

\* the strings of at most n characters taken from A
RECURSIVE Strings(_, _)
Strings(A, n) ==
    IF n = 0 THEN {<<>>}
    ELSE Strings(A, n - 1) \cup {s \o <<c>> : s \in Strings(A, n - 1), c \in A}

\* upper case of an ASCII character
Upper(c) == IF c \in 97..122 THEN c - 32 ELSE c

\* lower case of an ASCII character
Lower(c) == IF c \in 65..90 THEN c + 32 ELSE c

\* s with every letter in either case
RECURSIVE CaseVariants(_)
CaseVariants(s) ==
    IF s = <<>> THEN {<<>>}
    ELSE {<<c>> \o r : c \in {Upper(Head(s)), Lower(Head(s))}, r \in CaseVariants(Tail(s))}

\* abcdefgh, abcdefghi, abcdefgh.txt, abcdefghi.txt, a.bcde, a.bcd., a.b.c,
\* abcdefghijkl, abcdefghi.x.y, abcdefgh.txt.x, .txt, foo.
LongTokens ==
    {<<97, 98, 99, 100, 101, 102, 103, 104>>,
     <<97, 98, 99, 100, 101, 102, 103, 104, 105>>,
     <<97, 98, 99, 100, 101, 102, 103, 104, 46, 116, 120, 116>>,
     <<97, 98, 99, 100, 101, 102, 103, 104, 105, 46, 116, 120, 116>>,
     <<97, 46, 98, 99, 100, 101>>,
     <<97, 46, 98, 99, 100, 46>>,
     <<97, 46, 98, 46, 99>>,
     <<97, 98, 99, 100, 101, 102, 103, 104, 105, 106, 107, 108>>,
     <<97, 98, 99, 100, 101, 102, 103, 104, 105, 46, 120, 46, 121>>,
     <<97, 98, 99, 100, 101, 102, 103, 104, 46, 116, 120, 116, 46, 120>>,
     <<46, 116, 120, 116>>,
     <<102, 111, 111, 46>>}

Tokens == Strings({102, 70, DOT}, MaxToken) \cup CaseVariants(PathFooLower) \cup LongTokens

\* g with FOO.TXT in the first slot of its root directory
CaseImage(g) ==
    LET fsz   == IF g.fatsz16 # 0 THEN g.fatsz16 ELSE g.fatsz32
        root  == g.rsvd + g.numfats * fsz
        data  == root + ((g.rootent * 32) \div SECTOR_SIZE)
        c1    == IF g.rootclus # 0 THEN g.rootclus + 1 ELSE 2
        eoc   == IF g.fatsz16 # 0 THEN <<255, 255>> ELSE <<255, 255, 255, 15>>
        fat   == Put(ZeroSector, 0, g.fat \o eoc)
        dir   == Put(ZeroSector, 0, DirEntry(FooName, 0, c1, 4))
    IN  [nsec |-> g.nsec,
         data |-> (0 :> BootSector(g)) @@ (g.rsvd :> fat) @@ ((g.rsvd + fsz) :> fat)
                  @@ (root :> dir)
                  @@ ((data + (c1 - 2) * g.spc) :> Put(ZeroSector, 0, <<70, 79, 79, 10>>))]

InitCanon == InitWith({CaseImage(g) : g \in Geometries}, Tokens)

\* _make_valid_name called for the whole token at hand
MakeValidName ==
    /\ op.name = "none"
    /\ LET v == _make_valid_name(op.path, 0, Len(op.path), 0)
       IN  /\ op' = [op EXCEPT !.name = "make_valid_name", !.data = v.name]
           /\ ret' = v.ret
    /\ UNCHANGED <<disk, sector_buffer, sector_buffer_addr, sector_buffer_dirty,
                   cfs_readdir_offset, mounted, fat_file_pool, fat_fd_pool,
                   old, hist, nops>>

OpenCase == OpenIn(CasePaths)

NextCanon ==
    \/ MakeValidName
    \/ Mount
    \/ OpenCase
    \/ Close

SpecCanon == InitCanon /\ [][NextCanon]_vars

\* index of the first c in s, Len(s) + 1 when there is none
RECURSIVE FirstIndex(_, _, _)
FirstIndex(s, c, i) ==
    IF i > Len(s) THEN i ELSE IF s[i] = c THEN i ELSE FirstIndex(s, c, i + 1)

\* s in upper case
RECURSIVE UpperCase(_)
UpperCase(s) == IF s = <<>> THEN <<>> ELSE <<Upper(Head(s))>> \o UpperCase(Tail(s))

\* s followed by spaces up to n bytes
Padded(s, n) == s \o Rep(<<SPACE>>, n - Len(s))

\* what is wrong with token t: 3 a second dot, 4 more than 8 characters before
\* the first dot, 2 more than 3 characters behind it
Defects(t) ==
    LET d    == FirstIndex(t, DOT, 1)
        base == SubSeq(t, 1, d - 1)
        ext  == SubSeq(t, d + 1, Len(t))
    IN  (IF FirstIndex(ext, DOT, 1) <= Len(ext) THEN {3} ELSE {})
        \cup (IF Len(base) > 8 THEN {4} ELSE {})
        \cup (IF Len(ext) > 3 THEN {2} ELSE {})

\* the 8.3 name of a token without defect
ShortName(t) ==
    LET d == FirstIndex(t, DOT, 1)
    IN  Padded(UpperCase(SubSeq(t, 1, d - 1)), 8)
        \o Padded(UpperCase(SubSeq(t, d + 1, Len(t))), 3)

\* the same outcome of two get_dir_entry calls
SameEntry(a, b) ==
    /\ a.ret = b.ret
    /\ a.ret # 0 => a.dir_ent = b.dir_ent /\ a.sector = b.sector /\ a.offset = b.offset

\* C16: _make_valid_name returns 0 for a token without defect and then gives
\* the 11-byte name: base upper-cased and space-padded in bytes 0..7, extension
\* in bytes 8..10, the same for every spelling of the token in upper and lower
\* case; for a token with a defect it returns the code of one of its defects
\* (3 second dot, 4 base longer than 8, 2 more than 3 characters behind the
\* dot).  "foo.txt", "FOO.TXT" and "Foo.TxT" give FOO, five spaces, TXT, and on
\* a mounted volume get_dir_entry resolves the three to the same entry.
C16_Canonical ==
    /\ op.name = "make_valid_name" =>
          /\ Defects(op.path) = {} => ret = 0 /\ op.data = ShortName(op.path)
          /\ Defects(op.path) # {} => ret \in Defects(op.path)
          /\ op.path \in CaseVariants(PathFooLower) => ret = 0 /\ op.data = FooName
    /\ mounted.dev # 0 =>
          \A p, q \in CasePaths :
              /\ SameEntry(Resolve(Cur, p, 0), Resolve(Cur, q, 0))
              /\ Resolve(Cur, p, 0).ret # 0 => DIR_Name(Resolve(Cur, p, 0).dir_ent) = FooName

\* C16 witness: cfs_open("Foo.TxT", CFS_READ) has returned a handle on the
\* entry FOO.TXT of the volume
C16_Witness ==
    /\ op.name = "open" /\ op.path = PathFooMixed /\ op.flags = CFS_READ /\ ret \in Fds
    /\ DIR_Name(fat_file_pool[ret].dir_entry) = FooName
    /\ Resolve(Cur, PathFooLower, 0).ret # 0

----------------------------------------------------------------------------
(* Media whose boot sector departs from a formatted volume in one or two    *)
(* fields; the medium in the device may be exchanged between two calls      *)

\* the formatted volumes with the two fields BootSector leaves fixed
Boot16 == [bps |-> 512, sig |-> <<85, 170>>] @@ Geo16
Boot32 == [bps |-> 512, sig |-> <<85, 170>>] @@ Geo32

\* sectors in front of the data region of Boot16: 1 reserved, 2 * 16 FAT, 2 root
Boot16Meta ==
    Geo16.rsvd + Geo16.numfats * Geo16.fatsz16 + (Geo16.rootent * 32) \div SECTOR_SIZE

BootVariants ==
    LET bases == {Boot16, Boot32}
    IN  {[b EXCEPT !.bps = x] : b \in bases, x \in {0, 256, 512, 513, 1024, 4096}}
        \cup {[b EXCEPT !.spc = x] : b \in bases, x \in {0, 1, 3, 64, 128}}
        \cup {[b EXCEPT !.numfats = x] : b \in bases, x \in {0, 1, 3}}
        \cup {[b EXCEPT !.sig = x] : b \in bases, x \in {<<85, 0>>, <<0, 170>>}}
        \cup {[b EXCEPT !.totsec16 = 0, !.totsec32 = 0] : b \in bases}
        \cup {[b EXCEPT !.fatsz16 = 0, !.fatsz32 = 0] : b \in bases}
        \cup {[b EXCEPT !.bps = x, !.spc = y] : b \in bases, x \in {1024, 2048}, y \in {32, 64}}
        \cup {[Boot16 EXCEPT !.totsec16 = Boot16Meta + n] : n \in {4084, 4085}}
        \cup {[Boot16 EXCEPT !.totsec16 = 0, !.totsec32 = Boot16Meta + n] :
                 n \in {65524, 65525}}

\* sector 0 of variant b
BootOf(b) ==
    Put(Put(BootSector(b), 11, <<Byte(b.bps, 0), Byte(b.bps, 1)>>), 510, b.sig)

\* a 2 GiB medium formatted as b says
BootImage(b) == [Image(b) EXCEPT !.nsec = Geo32.nsec, !.data[0] = BootOf(b)]

BootImages == {BootImage(b) : b \in BootVariants}

InitBoot == InitWith(BootImages, {<<>>})

\* another medium is put into the device
InsertMedium ==
    /\ disk' \in BootImages
    /\ UNCHANGED <<sector_buffer, sector_buffer_addr, sector_buffer_dirty,
                   cfs_readdir_offset, mounted, fat_file_pool, fat_fd_pool>>
    /\ ret' = 0
    /\ Called([NoOp EXCEPT !.name = "insert"], {})

NextBoot ==
    \/ Mount
    \/ Umount
    \/ InsertMedium

SpecBoot == InitBoot /\ [][NextBoot]_vars

\* 1, 2, 4, ..., 32768
IsPowerOf2(x) == \E i \in 0..15 : x = 2 ^ i

\* C17: a mounted volume has BPB_BytesPerSec = 512, BPB_SecPerClus a power of
\* two (so not 0), BPB_NumFATs <= 2 and at most 32768 bytes per cluster, the
\* product taken without wrap-around.
C17_MountedGeometry ==
    mounted.dev # 0 =>
        /\ mounted.BPB_BytesPerSec = 512
        /\ IsPowerOf2(mounted.BPB_SecPerClus)
        /\ mounted.BPB_NumFATs <= 2
        /\ mounted.BPB_BytesPerSec * mounted.BPB_SecPerClus <= 32768

\* C18: fat_mount_device returns 1 when the boot sector of the device fails a
\* check (BPB_BytesPerSec or BPB_SecPerClus not a power of two, more than
\* 32 KiB per cluster, more than 2 FATs, no sectors, no FAT sectors, wrong
\* signature), else 2 when the cluster count is below 4085, else 0 with type
\* FAT16 below 65525 clusters and FAT32 from there on; after a non-zero return
\* no volume is mounted, whatever was mounted before.
C18_MountResult ==
    op.name = "mount" =>
        LET bs    == OnDisk(disk, 0)
            info  == parse_bootsector(bs).info
            bps   == info.BPB_BytesPerSec
            spc   == info.BPB_SecPerClus
            fails == \/ ~IsPowerOf2(bps) \/ ~IsPowerOf2(spc)
                     \/ bps * spc > 32768
                     \/ info.BPB_NumFATs > 2
                     \/ info.BPB_TotSec = 0
                     \/ info.BPB_FATSz = 0
                     \/ bs[511] # 85 \/ bs[512] # 170
            count == (info.BPB_TotSec
                      - (info.BPB_RsvdSecCnt + info.BPB_NumFATs * info.BPB_FATSz
                         + ((info.BPB_RootEntCnt * 32 + (bps - 1)) \div bps)))
                     \div spc
        IN  /\ IF fails THEN ret = 1
               ELSE IF count < 4085 THEN ret = 2
               ELSE ret = 0 /\ mounted.type = (IF count < 65525 THEN FAT16 ELSE FAT32)
            /\ ret # 0 => mounted.dev = 0

fat_file_size(st, fd) ==
    IF fd < 0 \/ fd >= FAT_FD_POOL_SIZE THEN 0
    ELSE IF st.fds[fd].file = 0 THEN 0
    ELSE DIR_FileSize(st.files[fd].dir_entry)

\* sector lies in one of the mirrors FAT #2 .. FAT #BPB_NumFATs
InMirrorFat(mnt, sector) ==
    /\ mnt.BPB_NumFATs >= 2
    /\ sector >= mnt.BPB_RsvdSecCnt + mnt.BPB_FATSz
    /\ sector < mnt.BPB_RsvdSecCnt + mnt.BPB_NumFATs * mnt.BPB_FATSz

InFirstFat(mnt, sector) ==
    sector >= mnt.BPB_RsvdSecCnt /\ sector < mnt.BPB_RsvdSecCnt + mnt.BPB_FATSz

\* the indices i < BPB_FATSz of the FAT sectors that device d holds data for in
\* FAT #1 or in a mirror; all other sectors of the FATs read as zeros
FatSectorsHeld(mnt, d) ==
    {(x - mnt.BPB_RsvdSecCnt) % mnt.BPB_FATSz :
        x \in {y \in DOMAIN d.data : InFirstFat(mnt, y) \/ InMirrorFat(mnt, y)}}

\* on device d every mirror holds what FAT #1 holds
MirrorsEqual(mnt, d) ==
    \A i \in FatSectorsHeld(mnt, d), k \in 2..mnt.BPB_NumFATs :
        OnDisk(d, mnt.BPB_RsvdSecCnt + i + (k - 1) * mnt.BPB_FATSz)
            = OnDisk(d, mnt.BPB_RsvdSecCnt + i)

\* the clusters whose FAT entry is updated before a sync
SyncClusters == 2..5

\* st with nothing buffered: the next fat_read_block reads the device
Unbuffered(st) == [st EXCEPT !.addr = 0, !.dirty = 0]

\* C20: after fat_sync_fats, for every FAT sector i < BPB_FATSz and every
\* mirror k in 2..BPB_NumFATs the device holds in sector i of FAT #k what it
\* holds in sector i of FAT #1, and a dirty buffered sector of FAT #1 has been
\* written to the device before the copying, so FAT #1 has every update made
\* before the call: an entry stored by write_fat_entry and still in the buffer
\* is read back from the device, and found in the mirror, after the sync.
C20_SyncFats ==
    /\ mounted.dev # 0 =>
          LET s == fat_sync_fats(Cur)
          IN  /\ MirrorsEqual(mounted, s.disk)
              /\ s.dirty = 0
              /\ (sector_buffer_dirty = 1 /\ InFirstFat(mounted, sector_buffer_addr)) =>
                     OnDisk(s.disk, sector_buffer_addr) = sector_buffer
              /\ \A x \in DOMAIN disk.data :
                     (InFirstFat(mounted, x)
                      /\ ~(sector_buffer_dirty = 1 /\ sector_buffer_addr = x)) =>
                         OnDisk(s.disk, x) = OnDisk(disk, x)
    /\ mounted.dev # 0 =>
          \A c \in SyncClusters, v \in {3, EOC} :
              LET w == write_fat_entry(Cur, U32(c), v)
                  s == fat_sync_fats(w)
              IN  /\ w.dirty = 1 /\ InFirstFat(mounted, w.addr)
                  /\ OnDisk(s.disk, w.addr) = w.buf
                  /\ read_fat_entry(Unbuffered(s), U32(c)).ret
                         = (IF mounted.type = FAT16 THEN v % 65536 ELSE v)
                  /\ MirrorsEqual(mounted, s.disk)
                  /\ mounted.BPB_NumFATs >= 2 =>
                         OnDisk(s.disk, w.addr + mounted.BPB_FATSz) = w.buf
    /\ op.name = "sync_fats" => MirrorsEqual(mounted, disk) /\ sector_buffer_dirty = 0

\* C20 witness: fat_sync_fats was called on a volume with two FATs after a
\* cluster was given to a file, and the mirror holds the changed FAT sector
C20_Witness ==
    /\ op.name = "sync_fats"
    /\ mounted.BPB_NumFATs = 2
    /\ \E fd \in Fds : fat_file_pool[fd].cluster >= 2
    /\ OnDisk(disk, mounted.BPB_RsvdSecCnt)
           \notin {Image(g).data[g.rsvd] : g \in Geometries}
    /\ OnDisk(disk, mounted.BPB_RsvdSecCnt + mounted.BPB_FATSz)
           = OnDisk(disk, mounted.BPB_RsvdSecCnt)

----------------------------------------------------------------------------
(* The sector buffer and the device *)

\* C21: with a dirty buffer, two flushes in a row make one device write: the
\* first writes the buffer to sector sector_buffer_addr and clears the dirty
\* flag, the second makes no device transfer and changes nothing; a flush of a
\* clean buffer makes no device transfer and changes nothing.
C21_FlushIdempotent ==
    LET f1 == fat_flush(Cur)
        f2 == fat_flush(f1)
    IN  /\ sector_buffer_dirty # 0 =>
              /\ f1.io = << <<"write", sector_buffer_addr>> >>
              /\ OnDisk(f1.disk, sector_buffer_addr) = sector_buffer
              /\ f1.dirty = 0
              /\ f2.io = f1.io
              /\ f2 = f1
        /\ sector_buffer_dirty = 0 => f1 = Cur /\ f1.io = <<>>
        /\ op.name = "flush" => sector_buffer_dirty = 0 /\ fat_flush(Cur) = Cur

\* C21 witness: fat_flush has been called after a write, the bytes written are
\* on the device in the sector the buffer holds, and the buffer is clean
C21_Witness ==
    /\ op.name = "flush"
    /\ sector_buffer_dirty = 0
    /\ sector_buffer_addr >= mounted.first_data_sector
    /\ \E fd \in Fds :
          /\ fat_fd_pool[fd].file = 1
          /\ fat_fd_pool[fd].offset = 4
    /\ SubSeq(OnDisk(disk, sector_buffer_addr), 1, 4) = WBuf(4)
    /\ OnDisk(disk, sector_buffer_addr) = sector_buffer

\* sizes of the devices that are shorter than the FAT16 volume they hold: the
\* device fails every transfer from the mirror FAT on, from the root directory
\* on, from the first or from the second data cluster on
DeviceSizes == {Geo16.rsvd + Geo16.fatsz16, Geo16.rsvd + 2 * Geo16.fatsz16,
                Geo16.rsvd + 2 * Geo16.fatsz16 + 2, Geo16.rsvd + 2 * Geo16.fatsz16 + 3}

\* the FAT16 volume with every entry of both FATs in use (end-of-chain marks)
\* and an empty root directory
FullImage ==
    LET used == Rep(<<255>>, SECTOR_SIZE)
    IN  [nsec |-> Geo16.nsec,
         data |-> [x \in 0..(Geo16.rsvd + 2 * Geo16.fatsz16 - 1) |->
                      IF x = 0 THEN BootSector(Geo16)
                      ELSE IF x \in {Geo16.rsvd, Geo16.rsvd + Geo16.fatsz16}
                      THEN Put(used, 0, Geo16.fat)
                      ELSE used]]

InitFail ==
    InitWith({[Image(Geo16) EXCEPT !.nsec = n] : n \in DeviceSizes} \cup {FullImage}, {<<>>})

NextFail ==
    \/ Mount
    \/ Flush
    \/ Open
    \/ Close
    \/ Read
    \/ Write
    \/ Remove

SpecFail == InitFail /\ [][NextFail]_vars

\* the device failed a transfer of the call that led to st
DeviceFailed(st) ==
    \E i \in 1..Len(st.io) : st.io[i][1] \in {"read", "write"} /\ st.io[i][2] >= st.disk.nsec

\* C22: a call of open, read, write or remove during which the device fails a
\* read or a write returns -1, and a flush whose device write fails leaves the
\* buffer marked dirty.
C22_FailureSurfaced ==
    mounted.dev # 0 =>
        /\ \A path \in Paths, flags \in OpenFlags :
               LET r == cfs_open(Cur, path, flags, 0)
               IN  DeviceFailed(r.st) => r.ret = -1
        /\ \A fd \in Fds, len \in ReadLens :
               LET r == cfs_read(Cur, fd, len)
               IN  fat_fd_pool[fd].file = 1 /\ DeviceFailed(r.st) => r.ret = -1
        /\ \A fd \in Fds, len \in WriteLens :
               LET r == cfs_write(Cur, fd, WBuf(len), len)
               IN  fat_fd_pool[fd].file = 1 /\ DeviceFailed(r.st) => r.ret = -1
        /\ \A path \in Paths :
               LET r == cfs_remove(Cur, path, 0)
               IN  DeviceFailed(r.st) => r.ret = -1
        /\ DeviceFailed(fat_flush(Cur)) => fat_flush(Cur).dirty # 0

----------------------------------------------------------------------------
(* Paths with a token that is no 8.3 name *)

\* paths with the token "a.b.c" (two dots), "abcdefghi" (base of 9) or "a.bcde"
\* (extension of 4): the token alone, first, in the middle and last; the other
\* tokens name the regular file of the populated volume
BadPaths ==
    LET BadTokens == {<<97, DOT, 98, DOT, 99>>,
                      <<97, 98, 99, 100, 101, 102, 103, 104, 105>>,
                      <<97, DOT, 98, 99, 100, 101>>}
    IN  UNION {{t, t \o <<SLASH>> \o PathRO,
                PathRO \o <<SLASH>> \o t \o <<SLASH>> \o PathRO,
                PathRO \o <<SLASH>> \o t} : t \in BadTokens}

\* C23: cfs_open of a path with a token that is no 8.3 name returns -1 wherever
\* the token stands, takes no descriptor, and neither opens nor creates an
\* entry (descriptors, file slots and the device content stay as they are).
C23_BadPathFails ==
    mounted.dev # 0 =>
        \A path \in BadPaths, flags \in OpenFlags :
            LET r == cfs_open(Cur, path, flags, 0)
            IN  /\ r.ret = -1
                /\ r.st.fds = fat_fd_pool
                /\ r.st.files = fat_file_pool
                /\ Flushed(r.st) = Flushed(Cur)

----------------------------------------------------------------------------
(* The search for a free cluster *)

\* the number of entries FAT #1 has room for
FatEntries(mnt) ==
    (mnt.BPB_FATSz * mnt.BPB_BytesPerSec) \div (IF mnt.type = FAT16 THEN 2 ELSE 4)

\* entry k of a FAT sector is zero
ZeroEntryAt(mnt, sec, k) ==
    IF mnt.type = FAT16 THEN LE16(sec, 2 * k) = 0
    ELSE LE32(sec, 4 * k) % 268435456 = 0

\* the sectors of FAT #1, from sector from on, in which device d has a zero entry
FreeSectors(mnt, d, from) ==
    {x \in from..(mnt.BPB_RsvdSecCnt + mnt.BPB_FATSz - 1) :
        \E k \in 0..((FatEntries(mnt) \div mnt.BPB_FATSz) - 1) :
            ZeroEntryAt(mnt, OnDisk(d, x), k)}

\* the lowest cluster with a zero entry in the FAT sectors from sector from on
LowestFree(mnt, d, from) ==
    LET per == FatEntries(mnt) \div mnt.BPB_FATSz
        x   == CHOOSE y \in FreeSectors(mnt, d, from) :
                   \A z \in FreeSectors(mnt, d, from) : y <= z
        k   == CHOOSE i \in 0..(per - 1) :
                   /\ ZeroEntryAt(mnt, OnDisk(d, x), i)
                   /\ \A j \in 0..(i - 1) : ~ZeroEntryAt(mnt, OnDisk(d, x), j)
    IN  (x - mnt.BPB_RsvdSecCnt) * per + k

\* C24: on a FAT16 volume, (a) when FAT #1 has no zero entry, a write on an
\* empty file returns, transfers fewer bytes than asked for, reads no sector
\* behind FAT #1 in its search, and leaves every file slot with a first cluster
\* and a cluster hint inside the FAT's range; (b) when FAT #1 has a zero entry
\* in or after the sector of the hint (hints 0 and 300), get_free_cluster
\* returns the lowest cluster with a zero entry from that sector on.
C24_FreeSearch ==
    mounted.dev # 0 /\ mounted.type = FAT16 =>
        /\ FreeSectors(mounted, Flushed(Cur), mounted.BPB_RsvdSecCnt) = {} =>
               \A fd \in Fds, len \in WriteLens :
                   LET r == cfs_write(Cur, fd, WBuf(len), len)
                   IN  fat_fd_pool[fd].file = 1 /\ fat_file_pool[fd].cluster = 0 =>
                           /\ ~r.st.hung
                           /\ r.ret < len
                           /\ r.st.files[fd].cluster < FatEntries(mounted)
                           /\ r.st.files[fd].nth_cluster < FatEntries(mounted)
        /\ \A h \in {0, 300} :
               LET from == calc_fat_block(mounted, U32(h)).fat_sec_num
                   r    == get_free_cluster(Cur, U32(h))
               IN  FreeSectors(mounted, Flushed(Cur), from) # {} =>
                       ~r.st.hung /\ r.ret = LowestFree(mounted, Flushed(Cur), from)

----------------------------------------------------------------------------
(* Directories *)

\* C25: cfs_opendir returns 0 exactly when the path resolves to an entry with
\* the DIRECTORY attribute, and then the handle holds that entry; otherwise
\* (path not resolved, regular file, volume label) it returns -1; the readdir
\* cursor is 0 afterwards in every case.
C25_Opendir ==
    mounted.dev # 0 =>
        \A path \in AttrPaths :
            LET g == get_dir_entry(Cur, path, ZeroEntry, 0, 0, 0, 0)
                r == cfs_opendir(Cur, ZeroEntry, path, 0)
                isdir == g.ret # 0 /\ HasBit(DIR_Attr(g.dir_ent), ATTR_DIRECTORY)
            IN  /\ r.ret = (IF isdir THEN 0 ELSE -1)
                /\ isdir => r.dirp = g.dir_ent
                /\ r.st.rdoff = 0

\* the k-th 32-byte slot of the directory whose entry is dirp, on device d: in
\* the chain cluster number (k*32) div (cluster size), at byte (k*32) mod
\* (cluster size) of it
Slot(st, dirp, k) ==
    LET csize == st.mnt.BPB_SecPerClus * st.mnt.BPB_BytesPerSec
        c     == find_nth_cluster(Unbuffered([st EXCEPT !.disk = Flushed(st)]), FstClus(dirp),
                                  (k * DIR_ENTRY_SIZE) \div csize).ret
        o     == (k * DIR_ENTRY_SIZE) % csize
    IN  Slice(OnDisk(Flushed(st), CLUSTER_TO_SECTOR(st.mnt, c)
                                     + (o \div st.mnt.BPB_BytesPerSec)),
              o % st.mnt.BPB_BytesPerSec, DIR_ENTRY_SIZE)

\* C26: after a successful cfs_opendir of the directory, the first and the
\* second cfs_readdir return 0 with the entries of slot 0 and slot 1 of the
\* directory's cluster chain and leave the cursor at 1 and 2; cfs_closedir and
\* a cfs_opendir of any path put the cursor back to 0.
C26_Readdir ==
    mounted.dev # 0 =>
        LET o  == cfs_opendir(Cur, ZeroEntry, PathDI, 0)
            r1 == cfs_readdir(o.st, o.dirp, [name |-> <<>>, size |-> 0])
            r2 == cfs_readdir(r1.st, o.dirp, r1.dirent)
            Shown(e) == [name |-> make_readable_entry(e, 0), size |-> DIR_FileSize(e)]
        IN  o.ret = 0 =>
                /\ r1.ret = 0 /\ r1.dirent = Shown(Slot(Cur, o.dirp, 0)) /\ r1.st.rdoff = 1
                /\ r2.ret = 0 /\ r2.dirent = Shown(Slot(Cur, o.dirp, 1)) /\ r2.st.rdoff = 2
                /\ cfs_closedir(r2.st, ZeroEntry).rdoff = 0
                /\ \A path \in AttrPaths : cfs_opendir(r2.st, ZeroEntry, path, 0).st.rdoff = 0

----------------------------------------------------------------------------
(* Write-back ordering of the sector buffer *)

\* the sector of the last device read into the buffer in the list io of a call
LastLoaded(io) ==
    LET R == {i \in 1..Len(io) : io[i][1] \in {"read", "sync", "scan"}}
        i == CHOOSE j \in R : \A k \in R : k <= j
    IN  IF io[i][1] = "scan" THEN io[i][3] ELSE io[i][2]

\* a dirty buffer was written to its own sector by the first transfer of the
\* call that led from the current state to st
WrittenFirst(st) ==
    sector_buffer_dirty # 0 =>
        /\ Len(st.io) >= 1 /\ st.io[1] = <<"write", sector_buffer_addr>>
        /\ \A i \in 2..Len(st.io) : st.io[i][1] = "write" => st.io[i][2] # sector_buffer_addr

\* C27: (a) fat_read_block(s) with s = sector_buffer_addr # 0 makes no device
\* transfer; with another s it first writes a dirty buffer to its own sector,
\* then reads s, and leaves sector_buffer_addr = s and the buffer clean;
\* (b) fat_next_block, fat_mount_device and fat_sync_fats write a dirty buffer
\* to its own sector before anything else is read into it; (c) after each of
\* them the buffer carries the address of the sector that was read into it
\* last, so that a later flush writes it where it was loaded from.
C27_WriteBack ==
    mounted.dev # 0 =>
        /\ \A s \in {0, sector_buffer_addr, sector_buffer_addr + 1, mounted.BPB_RsvdSecCnt} :
               LET r == fat_read_block(Cur, s)
               IN  IF s = sector_buffer_addr /\ s # 0
                   THEN r.st.io = <<>> /\ r.st = Cur
                   ELSE /\ WrittenFirst(r.st)
                        /\ r.st.io[Len(r.st.io)] = <<"read", s>>
                        /\ Len(r.st.io) = (IF sector_buffer_dirty # 0 THEN 2 ELSE 1)
                        /\ r.st.addr = s /\ r.st.dirty = 0
        /\ \A x \in {fat_next_block(Cur).st, fat_mount_device(Cur, DEV, "ones").st,
                      fat_sync_fats(Cur)} :
               /\ WrittenFirst(x)
               /\ x.io # <<>> /\ x.addr # 0 => LastLoaded(x.io) = x.addr

----------------------------------------------------------------------------
(* The cluster hint of a file slot *)

\* one mount, then open, close, read, write and seek
NextHint ==
    \/ mounted.dev = 0 /\ Mount
    \/ Open
    \/ Close
    \/ Read
    \/ Write
    \/ Seek

SpecHint == Init /\ [][NextHint]_vars

\* the state as the device shows it once the buffer is written out
Settled(st) == Unbuffered([st EXCEPT !.disk = Flushed(st)])

\* C28: for every open handle whose file has a first cluster, nth_cluster is
\* the cluster reached by n FAT links from the first cluster; and a load of
\* the cluster with index n or n + 1 through the fast paths of
\* load_next_sector_of_file gives the result, the sector and the buffer that
\* the walk from the first cluster gives.
C28_ClusterHint ==
    \A fd \in Fds :
        (mounted.dev # 0 /\ fat_fd_pool[fd].file = 1 /\ fat_file_pool[fd].cluster # 0) =>
            /\ find_nth_cluster(Settled(Cur), fat_file_pool[fd].cluster,
                                fat_file_pool[fd].n).ret = fat_file_pool[fd].nth_cluster
            /\ \A clusters \in {fat_file_pool[fd].n, fat_file_pool[fd].n + 1} :
                   LET fast == load_next_sector_of_file(Cur, fd, clusters, 0, 0)
                       walk == load_next_sector_of_file(
                                   [Cur EXCEPT !.files[fd].n = clusters + 2],
                                   fd, clusters, 0, 0)
                   IN  /\ fast.ret = walk.ret
                       /\ fast.ret = 0 => /\ fast.st.addr = walk.st.addr
                                          /\ fast.st.buf = walk.st.buf
                                          /\ fast.st.files[fd] = walk.st.files[fd]

\* C28 witness: a write has extended the chain of an open file, whose hint is
\* now a cluster behind the first
C28_Witness ==
    /\ op.name = "write"
    /\ \E fd \in Fds :
          /\ fat_fd_pool[fd].file = 1
          /\ fat_file_pool[fd].cluster >= 2
          /\ fat_file_pool[fd].n >= 1
          /\ fat_file_pool[fd].nth_cluster # fat_file_pool[fd].cluster

----------------------------------------------------------------------------
(* Allocation *)

\* the entries of the root directory that name a file or a directory, as the
\* device holds them once the buffer is written out
LiveEntries(st) ==
    {e \in {Slice(OnDisk(Flushed(st), sec), k * DIR_ENTRY_SIZE, DIR_ENTRY_SIZE) :
                sec \in RootSectors(st), k \in 0..15} :
        /\ e[1] # 0
        /\ e[1] # 229
        /\ (DIR_Attr(e) \div ATTR_VOLUME_ID) % 2 = 0}

\* the cluster chain of the directory entry e; a first cluster of 2^31 or more
\* is the number of no cluster of a volume
EntryChain(st, e) ==
    IF DIR_FstClusHI(e) >= 32768 THEN {}
    ELSE ChainFrom(Settled(st), FstClus(e), {})

\* the cluster the search hands out when it is started at start, as
\* add_cluster_to_file (start 0) and add_directory_entry_to_current (start: the
\* cluster of the directory) start it
Allocated(st, start) == get_free_cluster(st, U32(start))

\* C29: in every state with an open handle, the cluster the free-cluster
\* search hands out to a write or to a directory extension has a number of at
\* least 2 and a FAT entry that reads 0; once add_cluster_to_file has returned,
\* that entry is an end-of-chain mark and the next search hands out another
\* cluster; and no two entries of the root directory have a cluster in common.
C29_AllocationSafe ==
    /\ \A fd \in Fds :
           (mounted.dev # 0 /\ fat_fd_pool[fd].file = 1) =>
               /\ \A start \in {0, mounted.BPB_RootClus} :
                      LET g == Allocated(Cur, start)
                      IN  ~g.st.hung =>
                              /\ g.ret >= 2
                              /\ read_fat_entry(g.st, U32(g.ret)).ret = 0
               /\ LET g == Allocated(Cur, 0)
                      a == add_cluster_to_file(Cur, fd)
                  IN  ~a.hung =>
                          /\ is_EOC(a.mnt, read_fat_entry(a, U32(g.ret)).ret) = 1
                          /\ Allocated(a, 0).st.hung \/ Allocated(a, 0).ret # g.ret
    /\ mounted.dev # 0 =>
           \A e1, e2 \in LiveEntries(Cur) :
               e1 # e2 =>
                   EntryChain(Cur, e1) \cap EntryChain(Cur, e2) = {}

----------------------------------------------------------------------------
(* The frame of cfs_remove *)

\* the bytes, as <<sector, offset>>, in which the devices d1 and d2 differ
Changed(d1, d2) ==
    UNION {{<<sec, i>> : i \in {j \in 0..(SECTOR_SIZE - 1) :
                                   OnDisk(d1, sec)[j + 1] # OnDisk(d2, sec)[j + 1]}} :
              sec \in {x \in (DOMAIN d1.data) \cup (DOMAIN d2.data) :
                          OnDisk(d1, x) # OnDisk(d2, x)}}

\* the bytes of the entries of FAT #1 for the clusters of chain
FatBytes(mnt, chain) ==
    UNION {LET b == calc_fat_block(mnt, U32(c))
           IN  {<<b.fat_sec_num, b.ent_offset + i>> :
                    i \in 0..(IF mnt.type = FAT16 THEN 1 ELSE 3)} : c \in chain}

\* the bytes of the directory slot at offset in sector
SlotBytes(sector, offset) == {<<sector, offset + i>> : i \in 0..(DIR_ENTRY_SIZE - 1)}

\* the sector of the FAT entry that the end-of-chain mark, read as a cluster
\* number, indexes: a sector of the data region
MarkSector(mnt) ==
    calc_fat_block(mnt, U32(IF mnt.type = FAT16 THEN EOC % 65536 ELSE EOC)).fat_sec_num

\* st on a device whose sector MarkSector holds the byte fill throughout, as
\* the data of a file, present or removed, can leave it
Filled(st, fill) ==
    IF fill = 0 THEN st
    ELSE [st EXCEPT !.disk.data =
              (MarkSector(st.mnt) :> Rep(<<fill>>, SECTOR_SIZE)) @@ @]

\* C30: a cfs_remove that returns 0 changes on the device, a dirty buffer
\* counted in before and after, no byte but those of the FAT entries of the
\* file's cluster chain and of the file's directory slot; this for a device
\* whose data sector indexed by the end-of-chain mark holds zeros and for one
\* where it holds data.
C30_RemoveFrame ==
    mounted.dev # 0 =>
        \A path \in Paths : \A oob \in OobOf(path) : \A fill \in {0, 255} :
            LET st == Filled(Cur, fill)
                g  == Resolve(st, path, oob)
                r  == cfs_remove(st, path, oob)
            IN  (r.ret = 0 /\ ~r.st.hung) =>
                    Changed(Flushed(st), Flushed(r.st))
                        \subseteq (FatBytes(mounted, ChainOf(st, path, oob))
                                       \cup SlotBytes(g.sector, g.offset))

----------------------------------------------------------------------------
(* Reads, writes and the file size *)

\* C31: a read on an open handle at offset o of a file of size s transfers at
\* most max(0, s - o) bytes and leaves the offset of the handle at most s.
C31_ReadBounded ==
    (op.name = "read" /\ old.fds[op.fd].file = 1) =>
        LET s == DIR_FileSize(old.files[op.fd].dir_entry)
            o == old.fds[op.fd].offset
        IN  /\ ret <= Max(0, s - o)
            /\ Len(op.data) <= Max(0, s - o)
            /\ (o <= s => fat_fd_pool[op.fd].offset <= s)

\* the size field of the directory slot of the file of fd, as the device holds
\* it once the buffer is written out
SizeOnDisk(st, fd) ==
    DIR_FileSize(Slice(OnDisk(Flushed(st), st.files[fd].dir_entry_sector),
                       st.files[fd].dir_entry_offset, DIR_ENTRY_SIZE))

\* C32: a write of len bytes on an open handle that returns k advances the
\* offset of the handle by k, leaves the cached size at the greater of the
\* size before the call and the offset after it, and leaves the size field of
\* the directory slot on the device as it was.
C32_WriteSize ==
    mounted.dev # 0 =>
        \A fd \in Fds : \A len \in WriteLens :
            fat_fd_pool[fd].file = 1 =>
                LET w == cfs_write(Cur, fd, WBuf(len), len)
                IN  ~w.st.hung =>
                        /\ w.st.fds[fd].offset = fat_fd_pool[fd].offset + w.ret
                        /\ DIR_FileSize(w.st.files[fd].dir_entry)
                               = Max(DIR_FileSize(fat_file_pool[fd].dir_entry),
                                     w.st.fds[fd].offset)
                        /\ SizeOnDisk(w.st, fd) = SizeOnDisk(Cur, fd)

----------------------------------------------------------------------------
(* The handle pool *)

\* the descriptors in use in the pool fds
InUse(fds) == {i \in Fds : fds[i].file = 1}

\* C33: an open that succeeds returns the lowest descriptor that was free and
\* takes it, an open with every descriptor in use returns -1, and in both
\* cases the other descriptors and their file slots stay as they were; a close
\* frees its own descriptor and leaves the other handles as they were; never
\* are more than FAT_FD_POOL_SIZE handles open.
C33_HandlePool ==
    /\ Cardinality(InUse(fat_fd_pool)) <= FAT_FD_POOL_SIZE
    /\ (op.name = "open" /\ ret >= 0) =>
           /\ ret \in Fds \ InUse(old.fds)
           /\ \A i \in Fds \ InUse(old.fds) : ret <= i
           /\ InUse(fat_fd_pool) = InUse(old.fds) \cup {ret}
    /\ (op.name = "open" /\ InUse(old.fds) = Fds) =>
           /\ ret = -1
           /\ fat_fd_pool = old.fds
           /\ fat_file_pool = old.files
    /\ op.name = "open" =>
           \A i \in InUse(old.fds) :
               fat_fd_pool[i] = old.fds[i] /\ fat_file_pool[i] = old.files[i]
    /\ (op.name = "close" /\ op.fd \in Fds) =>
           /\ InUse(fat_fd_pool) = InUse(old.fds) \ {op.fd}
           /\ \A i \in Fds \ {op.fd} :
                  fat_fd_pool[i] = old.fds[i] /\ fat_file_pool[i] = old.files[i]

\* C33 witness: an open was refused with every descriptor in use, after the
\* opens before it had taken the descriptors one by one
C33_Witness ==
    /\ op.name = "open"
    /\ InUse(old.fds) = Fds
    /\ ret = -1
    /\ FAT_FD_POOL_SIZE >= 2

----------------------------------------------------------------------------
(* fat_next_block on geometries whose data region starts inside a cluster    *)
(* stride of the device                                                      *)

\* FAT16, 2 sectors per cluster, 17 sectors per FAT, 32 root entries: the data
\* region starts at sector 37, 4131 clusters
GeoOdd == [spc |-> 2, rsvd |-> 1, numfats |-> 2, rootent |-> 32, totsec16 |-> 8300,
           fatsz16 |-> 17, totsec32 |-> 0, fatsz32 |-> 0, rootclus |-> 0,
           nsec |-> 8300, fat |-> <<248, 255, 255, 255>>]

InitOdd == InitWith({Image(g) : g \in Geometries \cup {GeoOdd}}, {<<>>})

SpecOdd == InitOdd /\ [][NextHint]_vars

\* the sector that follows sector a of the data region in its cluster chain:
\* a + 1 inside the cluster, the first sector of the FAT successor behind its
\* last sector, end of chain (ret 128) when the successor is a mark
Following(st, a) ==
    LET f   == st.mnt.first_data_sector
        spc == st.mnt.BPB_SecPerClus
        e   == read_fat_entry(Settled(st), U32(((a - f) \div spc) + 2)).ret
    IN  IF (a - f) % spc # spc - 1 THEN [ret |-> 0, addr |-> a + 1]
        ELSE IF is_EOC(st.mnt, e) = 1 THEN [ret |-> 128, addr |-> 0]
        ELSE [ret |-> 0, addr |-> ((e - 2) * spc) + f]

\* C34: with a sector of the data region in the buffer, fat_next_block loads
\* the sector that follows it in its cluster chain and returns 0, or returns
\* 128 at the end of the chain and then has no sector of the data region in
\* the buffer.
C34_NextBlock ==
    (mounted.dev # 0 /\ sector_buffer_addr >= mounted.first_data_sector) =>
        LET n == fat_next_block(Cur)
            x == Following(Cur, sector_buffer_addr)
        IN  ~n.st.hung =>
                /\ n.ret = x.ret
                /\ x.ret = 0 => /\ n.st.addr = x.addr
                                /\ n.st.buf = OnDisk(Flushed(Cur), x.addr)
                /\ x.ret = 128 => n.st.addr < mounted.first_data_sector

----------------------------------------------------------------------------
(* Volumes with a crowded root directory *)

\* the name of the k-th entry: "FA", "FB", ... padded with spaces
DirName(k) == <<70, 65 + k>> \o Rep(<<SPACE>>, 9)

\* n directory entries from the k-th on, empty files; those of dead are
\* deleted the way other drivers delete: first byte 0xE5, the rest kept
RECURSIVE DirSlots(_, _, _)
DirSlots(k, n, dead) ==
    IF n = 0 THEN <<>>
    ELSE (IF k \in dead THEN Put(DirEntry(DirName(k), 0, 0, 0), 0, <<229>>)
          ELSE DirEntry(DirName(k), 0, 0, 0))
         \o DirSlots(k + 1, n - 1, dead)

\* g with n >= 16 entries in the first two sectors of its root directory
CrowdedImage(g, n, dead) ==
    LET fsz   == IF g.fatsz16 # 0 THEN g.fatsz16 ELSE g.fatsz32
        root  == g.rsvd + g.numfats * fsz
        data  == root + ((g.rootent * 32) \div SECTOR_SIZE)
        first == IF g.rootclus # 0 THEN data + (g.rootclus - 2) * g.spc ELSE root
    IN  [nsec |-> g.nsec,
         data |-> (first :> Put(ZeroSector, 0, DirSlots(0, 16, dead)))
                  @@ ((first + 1) :> Put(ZeroSector, 0, DirSlots(16, n - 16, dead)))
                  @@ Image(g).data]

\* 18 entries of which the fourth is deleted, and 32 entries
CrowdedImages ==
    {CrowdedImage(g, 18, {3}) : g \in Geometries}
        \cup {CrowdedImage(g, 32, {}) : g \in Geometries}

\* "fa": the first entry; "fd": the deleted one; "fr": the second entry of the
\* second sector; "zz": in no slot; 0xE5 "d": the bytes of the deleted slot
DirPaths == {<<102, 97>>, <<102, 100>>, <<102, 114>>, <<122, 122>>, <<229, 100>>}

InitDir == InitWith(CrowdedImages, {<<>>})

OpenDir == OpenIn(DirPaths)

\* calls made on a crowded volume
DirOps == 4

\* one mount, then open, close and write
NextDir ==
    \/ mounted.dev = 0 /\ Mount
    \/ nops < DirOps /\ OpenDir
    \/ nops < DirOps /\ Close
    \/ nops < DirOps /\ Write

SpecDir == InitDir /\ [][NextDir]_vars

----------------------------------------------------------------------------
(* Directory search *)

\* the sectors of the clusters that follow each other in the FAT from cluster
\* c on, in the order of the chain
RECURSIVE ChainSectors(_, _, _)
ChainSectors(st, c, seen) ==
    IF c < 2 \/ is_EOC(st.mnt, c) = 1 \/ c \in seen THEN <<>>
    ELSE [i \in 1..st.mnt.BPB_SecPerClus |->
             ((c - 2) * st.mnt.BPB_SecPerClus) + st.mnt.first_data_sector + (i - 1)]
         \o ChainSectors(st, read_fat_entry(st, U32(c)).ret, seen \cup {c})

\* the sectors of the root directory in on-disk order: the fixed region behind
\* the FATs on FAT16, the cluster chain of BPB_RootClus on FAT32
RootSeq(st) ==
    IF st.mnt.type = FAT16
    THEN [i \in 1..(st.mnt.first_data_sector
                        - (st.mnt.BPB_RsvdSecCnt + st.mnt.BPB_NumFATs * st.mnt.BPB_FATSz)) |->
             st.mnt.BPB_RsvdSecCnt + (st.mnt.BPB_NumFATs * st.mnt.BPB_FATSz) + (i - 1)]
    ELSE ChainSectors(Settled(st), st.mnt.BPB_RootClus, {})

\* the search the directory format defines, over the sectors secs of device
\* d from slot k of the i-th sector on: the first live slot with the name,
\* not found at a slot whose first byte is 0x00 or behind the last sector
RECURSIVE ScanFrom(_, _, _, _, _)
ScanFrom(d, secs, i, k, name) ==
    IF i > Len(secs) THEN [found |-> FALSE, sector |-> 0, offset |-> 0]
    ELSE IF k = 16 THEN ScanFrom(d, secs, i + 1, 0, name)
    ELSE LET e == Slice(OnDisk(d, secs[i]), k * DIR_ENTRY_SIZE, DIR_ENTRY_SIZE)
         IN  IF e[1] = 0 THEN [found |-> FALSE, sector |-> 0, offset |-> 0]
             ELSE IF e[1] # 229 /\ DIR_Name(e) = name
             THEN [found |-> TRUE, sector |-> secs[i], offset |-> k * DIR_ENTRY_SIZE]
             ELSE ScanFrom(d, secs, i, k + 1, name)

\* C35: lookup, called with the first sector of the root directory in the
\* buffer, returns 0 with the entry, the sector and the offset of the first
\* live slot that carries the name, in on-disk order, and a result other than
\* 0 when a slot with first byte 0x00 or the end of the directory comes first.
C35_Lookup ==
    mounted.dev # 0 =>
        \A path \in DirPaths :
            LET name == _make_valid_name(path, 0, Len(path), 0).name
                l    == lookup(fat_read_block(Cur, RootSeq(Cur)[1]).st, name)
                x    == ScanFrom(Flushed(Cur), RootSeq(Cur), 1, 0, name)
            IN  ~l.st.hung =>
                    IF x.found
                    THEN /\ l.ret = 0
                         /\ l.sector = x.sector
                         /\ l.offset = x.offset
                         /\ l.dir_entry = Slice(OnDisk(Flushed(Cur), x.sector), x.offset,
                                                DIR_ENTRY_SIZE)
                    ELSE l.ret # 0

----------------------------------------------------------------------------
(* Directory insertion *)

\* the elements of the sequence q
Range(q) == {q[i] : i \in 1..Len(q)}

\* some slot of the root directory of st has first byte 0x00 or 0xE5
HasFreeSlot(st) ==
    \E i \in 1..Len(RootSeq(st)) : \E k \in 0..15 :
        OnDisk(Flushed(st), RootSeq(st)[i])[k * DIR_ENTRY_SIZE + 1] \in {0, 229}

\* the cluster of sector a of the data region
ClusterOf(mnt, a) == ((a - mnt.first_data_sector) \div mnt.BPB_SecPerClus) + 2

\* C36: an open for writing that creates a file stores the new entry, name
\* and zeros, in a slot of the root directory whose first byte was 0x00 or
\* 0xE5, at the sector and offset it reports, and changes no other byte of the
\* directory; when the directory's cluster chain had no such slot the slot is
\* at offset 0 of the first sector of a cluster that was free, which is now
\* the FAT successor of the directory's last cluster and carries an
\* end-of-chain mark.
C36_Insert ==
    mounted.dev # 0 =>
        \A path \in DirPaths :
            LET o    == cfs_open(Cur, path, CFS_WRITE, 0)
                sec  == o.st.files[o.ret].dir_entry_sector
                off  == o.st.files[o.ret].dir_entry_offset
                last == RootSeq(Cur)[Len(RootSeq(Cur))]
            IN  (Resolve(Cur, path, 0).ret = 0 /\ o.ret >= 0 /\ ~o.st.hung) =>
                    /\ sec \in Range(RootSeq(o.st))
                    /\ OnDisk(Flushed(Cur), sec)[off + 1] \in {0, 229}
                    /\ Slice(OnDisk(Flushed(o.st), sec), off, DIR_ENTRY_SIZE)
                           = Put(ZeroEntry, 0, _make_valid_name(path, 0, Len(path), 0).name)
                    /\ \A x \in Changed(Flushed(Cur), Flushed(o.st)) :
                           x[1] \in Range(RootSeq(Cur)) => x \in SlotBytes(sec, off)
                    /\ (mounted.type = FAT32 /\ ~HasFreeSlot(Cur)) =>
                           /\ off = 0
                           /\ sec = CLUSTER_TO_SECTOR(mounted, ClusterOf(mounted, sec))
                           /\ read_fat_entry(Settled(Cur), U32(ClusterOf(mounted, sec))).ret = 0
                           /\ read_fat_entry(Settled(o.st), U32(ClusterOf(mounted, last))).ret
                                  = ClusterOf(mounted, sec)
                           /\ is_EOC(mounted,
                                     read_fat_entry(Settled(o.st),
                                                    U32(ClusterOf(mounted, sec))).ret) = 1

----------------------------------------------------------------------------
(* The fixed root directory of FAT16 *)

\* the sectors of the FATs
FatSectors(mnt) ==
    mnt.BPB_RsvdSecCnt..(mnt.BPB_RsvdSecCnt + (mnt.BPB_NumFATs * mnt.BPB_FATSz) - 1)

\* C37: on a FAT16 volume lookup, started at the first sector of the root
\* region, finds an entry that lies in any sector of the region, at its sector
\* and offset, and reads no sector outside the region; and an open for writing
\* of a name that is in no slot, when the region has no free slot, returns -1
\* and changes no byte of the FATs.
C37_Fat16Root ==
    (mounted.dev # 0 /\ mounted.type = FAT16) =>
        \A path \in DirPaths :
            LET name == _make_valid_name(path, 0, Len(path), 0).name
                x    == ScanFrom(Flushed(Cur), RootSeq(Cur), 1, 0, name)
                l    == lookup(fat_read_block(Cur, RootSeq(Cur)[1]).st, name)
                o    == cfs_open(Cur, path, CFS_WRITE, 0)
            IN  /\ (x.found /\ ~l.st.hung) =>
                       /\ l.ret = 0
                       /\ l.sector = x.sector
                       /\ l.offset = x.offset
                /\ ~l.st.hung =>
                       \A i \in 1..Len(l.st.io) :
                           l.st.io[i][1] = "read" => l.st.io[i][2] \in Range(RootSeq(Cur))
                /\ (~x.found /\ ~HasFreeSlot(Cur) /\ FreeFds(Cur) # {} /\ ~o.st.hung) =>
                       /\ o.ret = -1
                       /\ \A c \in Changed(Flushed(Cur), Flushed(o.st)) :
                              c[1] \notin FatSectors(mounted)

\* ---- path tokenization ----

MaxPath == 4

\* the paths at hand for the path resolver: every string of at most MaxPath
\* characters over a, b and '/'
PathInputs == Strings({97, 98, SLASH}, MaxPath)

\* what a read of path[] behind the terminating NUL can yield
OobBytes == {0, SLASH, 120}

\* the state after construction with one of PathInputs handed to a resolver
\* that pr_reset has cleared
InitPath == InitWith({Image(g) : g \in Geometries}, PathInputs)

\* the resolver the calls so far have left: op.off is start, op.len is end,
\* op.data is name, op.whence counts the calls
ResolverOf(o) ==
    IF o.name = "none" THEN [pr_reset EXCEPT !.path = o.path]
    ELSE [start |-> o.off, end |-> o.len, path |-> o.path, name |-> o.data]

\* pr_get_next_path_part followed by pr_is_current_path_part_a_file (op.flags),
\* called as the loop of get_dir_entry calls them: while the result is 0
NextPathPart ==
    /\ op.name \in {"none", "path_part"}
    /\ ret = 0
    /\ op.len <= Len(op.path)
    /\ \E oob \in OobBytes :
          LET v == pr_get_next_path_part(ResolverOf(op), oob)
          IN  /\ op' = [op EXCEPT !.name = "path_part", !.off = v.pr.start,
                                  !.len = v.pr.end, !.data = v.pr.name,
                                  !.whence = @ + 1,
                                  !.flags = pr_is_current_path_part_a_file(v.pr, oob)]
              /\ ret' = v.ret
    /\ UNCHANGED <<disk, sector_buffer, sector_buffer_addr, sector_buffer_dirty,
                   cfs_readdir_offset, mounted, fat_file_pool, fat_fd_pool,
                   old, hist, nops>>

NextPath == NextPathPart

SpecPath == InitPath /\ [][NextPath]_vars

\* the '/'-separated pieces of s, the empty ones included
RECURSIVE Pieces(_)
Pieces(s) ==
    LET d == FirstIndex(s, SLASH, 1)
    IN  IF d > Len(s) THEN <<s>>
        ELSE <<SubSeq(s, 1, d - 1)>> \o Pieces(SubSeq(s, d + 1, Len(s)))

\* s without its leading '/'
Unrooted(s) == IF s # <<>> /\ s[1] = SLASH THEN Tail(s) ELSE s

\* a path of non-empty tokens separated by single '/', with or without a
\* leading '/'
WellFormed(s) == \A k \in 1..Len(Pieces(Unrooted(s))) : Pieces(Unrooted(s))[k] # <<>>

\* C38: on a well-formed path the k-th call of pr_get_next_path_part returns 0
\* with the canonical name of the k-th '/'-separated token, the same with and
\* without a leading '/'; pr_is_current_path_part_a_file is 1 exactly for the
\* last token; the call after the last token returns 1; and no call depends on
\* what lies behind the terminating NUL.
C38_Tokens ==
    WellFormed(op.path) =>
       LET toks == Pieces(Unrooted(op.path))
           k    == op.whence
       IN  /\ (op.name = "path_part" /\ k <= Len(toks)) =>
                  /\ ret = 0
                  /\ op.data = ShortName(toks[k])
                  /\ op.flags = (IF k = Len(toks) THEN 1 ELSE 0)
           /\ (op.name = "path_part" /\ k = Len(toks) + 1) => ret = 1
           /\ (op.name \in {"none", "path_part"} /\ ret = 0 /\ op.len <= Len(op.path)) =>
                  \A o1, o2 \in OobBytes :
                      pr_get_next_path_part(ResolverOf(op), o1)
                          = pr_get_next_path_part(ResolverOf(op), o2)

----------------------------------------------------------------------------
(* Path resolution *)

PathXX == <<120, 120>>

\* paths through the root directory, the directory DI, the regular file RO
\* and the missing name NO
ResolvePaths ==
    {PathNone, PathRO, PathDI,
     PathDI \o <<SLASH>> \o PathXX,
     <<SLASH>> \o PathDI \o <<SLASH>> \o PathXX,
     PathNone \o <<SLASH>> \o PathXX,
     PathRO \o <<SLASH>> \o PathXX,
     PathDI \o <<SLASH>> \o PathNone \o <<SLASH>> \o PathXX}

\* the walk the directory format defines for the tokens toks from token k on,
\* dir being the sectors of the directory reached so far: "found" or "absent"
\* for the last token, "missing" for a non-final token that is not in its
\* directory, "notdir" for one that names no directory
RECURSIVE Walk(_, _, _, _)
Walk(st, dir, toks, k) ==
    LET f == ScanFrom(Flushed(st), dir, 1, 0, ShortName(toks[k]))
        e == Slice(OnDisk(Flushed(st), f.sector), f.offset, DIR_ENTRY_SIZE)
    IN  IF k = Len(toks)
        THEN [kind |-> IF f.found THEN "found" ELSE "absent", dir |-> dir]
        ELSE IF ~f.found THEN [kind |-> "missing", dir |-> dir]
        ELSE IF (DIR_Attr(e) \div ATTR_DIRECTORY) % 2 = 0 \/ DIR_FstClusHI(e) >= 32768
        THEN [kind |-> "notdir", dir |-> dir]
        ELSE Walk(st, ChainSectors(Settled(st), FstClus(e), {}), toks, k + 1)

\* C39: after a first mount and any opens and closes, get_dir_entry changes
\* the device only when the create flag is set and
\* the last token is absent from the directory its preceding tokens lead to,
\* and then by one slot of that directory which holds the canonical name and
\* zeros (attribute 0, size 0, first cluster 0); when a non-final token is
\* missing or names a regular file it returns 0 and changes nothing.
C39_Resolve ==
    (hist.plain /\ mounted.dev # 0) =>
        \A path \in ResolvePaths : \A create \in {0, 1} :
            LET g    == get_dir_entry(Cur, path, ZeroEntry, 0, 0, create, 0)
                toks == Pieces(Unrooted(path))
                w    == Walk(Cur, RootSeq(Cur), toks, 1)
                ch   == Changed(Flushed(Cur), Flushed(g.st))
            IN  /\ ch # {} =>
                      /\ create = 1
                      /\ w.kind = "absent"
                      /\ \E i \in 1..Len(w.dir) : \E k \in 0..15 :
                            /\ ch \subseteq SlotBytes(w.dir[i], k * DIR_ENTRY_SIZE)
                            /\ Slice(OnDisk(Flushed(g.st), w.dir[i]), k * DIR_ENTRY_SIZE,
                                     DIR_ENTRY_SIZE)
                                   = DirEntry(ShortName(toks[Len(toks)]), 0, 0, 0)
                /\ w.kind \in {"missing", "notdir"} => g.ret = 0 /\ ch = {}

----------------------------------------------------------------------------
(* The reserved bits of a FAT32 entry *)

\* the FAT32 volume with reserved bits set in the words of two free entries:
\* 0xF0000000 in entry 3 and 0x10000000 in entry 4
TopImage ==
    LET fat == Put(ZeroSector, 0, Geo32.fat \o <<0, 0, 0, 240>> \o <<0, 0, 0, 16>>)
    IN  [nsec |-> Geo32.nsec,
         data |-> (0 :> BootSector(Geo32)) @@ (Geo32.rsvd :> fat)
                  @@ ((Geo32.rsvd + Geo32.fatsz32) :> fat)]

InitTop == InitWith({TopImage, Image(Geo32)}, {<<>>})

SpecTop == InitTop /\ [][Next]_vars

\* the clusters and values write_fat_entry is applied to
TopClusters == {1, 3, 4, 5}
TopValues == {0, 3, EOC}

\* C40: on FAT32, after a first mount and any calls of open, write, close and
\* remove, write_fat_entry(c, v) leaves the top 4 bits of the word of
\* entry c as the device held them, read_fat_entry(c) then returns v (a value
\* of at most 28 bits), and no byte of the device outside the word of entry c
\* changes.
C40_TopBits ==
    (hist.plain /\ mounted.dev # 0 /\ mounted.type = FAT32) =>
        \A c \in TopClusters : \A v \in TopValues :
            LET b == calc_fat_block(mounted, U32(c))
                w == write_fat_entry(Cur, U32(c), v)
            IN  /\ OnDisk(Flushed(w), b.fat_sec_num)[b.ent_offset + 4] \div 16
                       = OnDisk(Flushed(Cur), b.fat_sec_num)[b.ent_offset + 4] \div 16
                /\ read_fat_entry(w, U32(c)).ret = v
                /\ Changed(Flushed(Cur), Flushed(w))
                       \subseteq {<<b.fat_sec_num, b.ent_offset + i>> : i \in 0..3}

====
